---------------------------- MODULE Spec2Model ----------------------------
(***************************************************************************)
(* Consensus fusion of redundant bounding-box annotations (WBF repository).*)
(*                                                                         *)
(* A box is a 4-tuple <<x1, y1, x2, y2>> of integers, a coordinate k       *)
(* standing for the real number k / GridScale.  A real number computed by  *)
(* the program (an IoU, a variance, a score) is an exact fraction          *)
(* <<n, d>> with d > 0, kept in lowest terms.                              *)
(***************************************************************************)
EXTENDS Integers, Sequences, FiniteSets

VARIABLES
    pc,             \* which call is running / has returned
    box1, box2,     \* arguments of calculate_iou
    calls,          \* the calls of calculate_iou that have returned
    iou_ab, iou_ba, \* calculate_iou(box1, box2), calculate_iou(box2, box1)
    all_boxes,      \* the flattened boxes of one image, indexed 1..n
    all_labels,     \* their class labels
    scale,          \* the unit of their coordinates: k stands for k / scale
    n_annotators,   \* len(annotation_files)
    iou_threshold,
    min_consensus,
    i,              \* the index the outer loop is at
    visited,        \* cluster_boxes_by_similarity's marker array
    clusters,       \* the clusters built so far, each a list of indices
    cluster_results, \* process_with_clustering's (box, score, label) per cluster
    final_boxes, final_scores, final_labels,
    current_boxes,  \* the boxes given to remove_outliers_mad
    mad_threshold,  \* its threshold
    inlier_indices, \* the indices it returned
    max_iterations,
    min_stability,
    processed,      \* iterative_refinement's marker array
    refined,        \* its three result lists, one record per output box,
                    \* with the locals the box was computed from
    filtered,       \* what process_with_iterative_refinement returns
    confidence_scores, \* calculate_confidence_from_redundancy's result
    assigned_scores,   \* assign_confidence_scores' result
    image_annotations, \* process_all_images: len(ann_files) per image
    data,           \* run_wbf_and_save: len(content['boxes']) per image
    approach,       \* 'wbf', 'clustering', 'iterative' or 'all'
    idx,            \* the image the batch loop is at
    outcomes,       \* how each fusion call of the batch ended
    results,        \* results[approach]: the image ids that have an entry
    saved,          \* saved[approach]: the image ids whose file was written
    ann_boxes,      \* process_with_wbf: the boxes read from each file
    ann_labels,     \* and their labels
    wbf_boxes,      \* its all_boxes: one list per non-empty file
    wbf_labels,     \* its all_labels
    wbf_scores,     \* its all_scores
    set_idx,        \* the set the redistribution loop is at
    score_idx,      \* its idx, the offset into the flat scores
    frames          \* the locals of each of two calls that run interleaved

iouVars == <<box1, box2, calls, iou_ab, iou_ba>>
listVars == <<all_boxes, all_labels, scale>>
clusterVars == <<n_annotators, iou_threshold, min_consensus, i, visited,
                 clusters, cluster_results, final_boxes, final_scores,
                 final_labels>>
madVars == <<current_boxes, mad_threshold, inlier_indices>>
refineVars == <<max_iterations, min_stability, processed, refined, filtered>>
redundancyVars == <<confidence_scores, assigned_scores>>
batchVars == <<image_annotations, data, approach, idx, outcomes, results,
               saved>>
wbfVars == <<ann_boxes, ann_labels, wbf_boxes, wbf_labels, wbf_scores,
             set_idx, score_idx>>
vars == <<pc, iouVars, listVars, clusterVars, madVars, refineVars,
          redundancyVars, batchVars, wbfVars, frames>>

-----------------------------------------------------------------------------
(* Bounds of the model.                                                    *)

\* Coordinates of the boxes given to calculate_iou range over 0..GridMax.
GridMax == 2

\* A coordinate k of a box in a list stands for k / GridScale.
GridScale == 3

\* The longest flattened list of boxes of one image.
MaxBoxes == 3

\* The largest number of annotation files of one image.
MaxAnnotators == 3

\* The longest list of boxes given to remove_outliers_mad on its own.
MaxMadBoxes == 4

\* The largest number of images of one batch.
MaxImages == 2

-----------------------------------------------------------------------------
(* Exact fractions.                                                        *)

Abs(x) == IF x < 0 THEN -x ELSE x

Max2(a, b) == IF b > a THEN b ELSE a

Min2(a, b) == IF b < a THEN b ELSE a

RECURSIVE Gcd(_, _)
Gcd(a, b) == IF b = 0 THEN a ELSE Gcd(b, a % b)

\* n / d in lowest terms, d > 0.
Rat(n, d) == LET g == Gcd(Abs(n), d) IN <<n \div g, d \div g>>

Zero == <<0, 1>>

One == <<1, 1>>

RLt(p, q) == p[1] * q[2] < q[1] * p[2]

RLe(p, q) == p[1] * q[2] <= q[1] * p[2]

RAdd(p, q) == Rat(p[1] * q[2] + q[1] * p[2], p[2] * q[2])

RSub(p, q) == Rat(p[1] * q[2] - q[1] * p[2], p[2] * q[2])

RMul(p, q) == Rat(p[1] * q[1], p[2] * q[2])

RMin(p, q) == IF RLt(q, p) THEN q ELSE p

RMax(p, q) == IF RLt(p, q) THEN q ELSE p

\* p <= q without a product: the integer parts are compared, then the
\* reciprocals of the fractional parts.  For fractions whose denominators
\* are too large to be multiplied.
RECURSIVE SafeLe(_, _)
SafeLe(p, q) ==
    LET fp == p[1] \div p[2]
        fq == q[1] \div q[2]
        rp == p[1] % p[2]
        rq == q[1] % q[2]
    IN  IF fp # fq THEN fp < fq
        ELSE IF rp = 0 THEN TRUE
        ELSE IF rq = 0 THEN FALSE
        ELSE SafeLe(<<q[2], rq>>, <<p[2], rp>>)

-----------------------------------------------------------------------------
(* calculate_iou.  The result is [raised, value]: raised is TRUE when the  *)
(* call ends in ZeroDivisionError instead of returning value.              *)

Returns(v) == [raised |-> FALSE, value |-> v]

\* Python's n / d on floats.
Divide(n, d) ==
    IF d = 0 THEN [raised |-> TRUE, value |-> Zero] ELSE Returns(Rat(n, d))

\* Mutant: the intersection's left edge is box1's, not the larger of the two.
CalculateIoU_NoMax(b1, b2) ==
    LET x1_inter == b1[1]
        y1_inter == Max2(b1[2], b2[2])
        x2_inter == Min2(b1[3], b2[3])
        y2_inter == Min2(b1[4], b2[4])
        inter_area == (x2_inter - x1_inter) * (y2_inter - y1_inter)
        box1_area == (b1[3] - b1[1]) * (b1[4] - b1[2])
        box2_area == (b2[3] - b2[1]) * (b2[4] - b2[2])
        union_area == box1_area + box2_area - inter_area
    IN  IF x2_inter < x1_inter \/ y2_inter < y1_inter
        THEN Returns(Zero)
        ELSE IF union_area > 0 THEN Divide(inter_area, union_area)
                               ELSE Returns(Zero)

\* Mutant: no early return when the boxes do not intersect.
CalculateIoU_NoEarlyReturn(b1, b2) ==
    LET x1_inter == Max2(b1[1], b2[1])
        y1_inter == Max2(b1[2], b2[2])
        x2_inter == Min2(b1[3], b2[3])
        y2_inter == Min2(b1[4], b2[4])
        inter_area == (x2_inter - x1_inter) * (y2_inter - y1_inter)
        box1_area == (b1[3] - b1[1]) * (b1[4] - b1[2])
        box2_area == (b2[3] - b2[1]) * (b2[4] - b2[2])
        union_area == box1_area + box2_area - inter_area
    IN  IF union_area > 0 THEN Divide(inter_area, union_area)
                          ELSE Returns(Zero)

\* Mutant: the union is the sum of the areas, the intersection counted twice.
CalculateIoU_SumUnion(b1, b2) ==
    LET x1_inter == Max2(b1[1], b2[1])
        y1_inter == Max2(b1[2], b2[2])
        x2_inter == Min2(b1[3], b2[3])
        y2_inter == Min2(b1[4], b2[4])
        inter_area == (x2_inter - x1_inter) * (y2_inter - y1_inter)
        box1_area == (b1[3] - b1[1]) * (b1[4] - b1[2])
        box2_area == (b2[3] - b2[1]) * (b2[4] - b2[2])
        union_area == box1_area + box2_area
    IN  IF x2_inter < x1_inter \/ y2_inter < y1_inter
        THEN Returns(Zero)
        ELSE IF union_area > 0 THEN Divide(inter_area, union_area)
                               ELSE Returns(Zero)

\* Mutant: the guard of the division is union_area >= 0.
CalculateIoU_WeakGuard(b1, b2) ==
    LET x1_inter == Max2(b1[1], b2[1])
        y1_inter == Max2(b1[2], b2[2])
        x2_inter == Min2(b1[3], b2[3])
        y2_inter == Min2(b1[4], b2[4])
        inter_area == (x2_inter - x1_inter) * (y2_inter - y1_inter)
        box1_area == (b1[3] - b1[1]) * (b1[4] - b1[2])
        box2_area == (b2[3] - b2[1]) * (b2[4] - b2[2])
        union_area == box1_area + box2_area - inter_area
    IN  IF x2_inter < x1_inter \/ y2_inter < y1_inter
        THEN Returns(Zero)
        ELSE IF union_area >= 0 THEN Divide(inter_area, union_area)
                                ELSE Returns(Zero)

CalculateIoU(b1, b2) ==
    LET x1_inter == Max2(b1[1], b2[1])
        y1_inter == Max2(b1[2], b2[2])
        x2_inter == Min2(b1[3], b2[3])
        y2_inter == Min2(b1[4], b2[4])
        inter_area == (x2_inter - x1_inter) * (y2_inter - y1_inter)
        box1_area == (b1[3] - b1[1]) * (b1[4] - b1[2])
        box2_area == (b2[3] - b2[1]) * (b2[4] - b2[2])
        union_area == box1_area + box2_area - inter_area
    IN  IF x2_inter < x1_inter \/ y2_inter < y1_inter
        THEN Returns(Zero)
        ELSE IF union_area > 0 THEN Divide(inter_area, union_area)
                               ELSE Returns(Zero)

-----------------------------------------------------------------------------
(* SpecIoU: calculate_iou called on every pair of boxes of the grid, in    *)
(* both argument orders.  The boxes include degenerate ones (zero width or *)
(* height) and malformed ones (x2 < x1 or y2 < y1).  Three boxes on a      *)
(* finer grid are called too; the two boxes of a call are in one unit.     *)

GridBoxes == (0..GridMax) \X (0..GridMax) \X (0..GridMax) \X (0..GridMax)

\* Three annotators' boxes of one object, in hundredths:
\* (0.10,0.10,0.30,0.30), (0.11,0.11,0.31,0.29), (0.09,0.12,0.29,0.31).
Scenario1Boxes ==
    { <<10, 10, 30, 30>>, <<11, 11, 31, 29>>, <<9, 12, 29, 31>> }

NotCalled == Returns(Zero)

IdleIoU ==
    /\ box1 = <<0, 0, 0, 0>>
    /\ box2 = <<0, 0, 0, 0>>
    /\ calls = {}
    /\ iou_ab = NotCalled
    /\ iou_ba = NotCalled

IdleList ==
    /\ all_boxes = <<>>
    /\ all_labels = <<>>
    /\ scale = GridScale

IdleCluster ==
    /\ n_annotators = 0
    /\ iou_threshold = Zero
    /\ min_consensus = Zero
    /\ i = 0
    /\ visited = <<>>
    /\ clusters = <<>>
    /\ cluster_results = <<>>
    /\ final_boxes = <<>>
    /\ final_scores = <<>>
    /\ final_labels = <<>>

IdleMad ==
    /\ current_boxes = <<>>
    /\ mad_threshold = Zero
    /\ inlier_indices = <<>>

IdleRefine ==
    /\ max_iterations = 0
    /\ min_stability = Zero
    /\ processed = <<>>
    /\ refined = <<>>
    /\ filtered = <<>>

IdleRedundancy ==
    /\ confidence_scores = <<>>
    /\ assigned_scores = <<>>

IdleWbf ==
    /\ ann_boxes = <<>>
    /\ ann_labels = <<>>
    /\ wbf_boxes = <<>>
    /\ wbf_labels = <<>>
    /\ wbf_scores = <<>>
    /\ set_idx = 0
    /\ score_idx = 0

IdleFrames == frames = <<>>

IdleBatch ==
    /\ image_annotations = <<>>
    /\ data = <<>>
    /\ approach = "all"
    /\ idx = 0
    /\ outcomes = <<>>
    /\ results = [wbf |-> {}, clustering |-> {}, iterative |-> {}]
    /\ saved = [wbf |-> {}, clustering |-> {}, iterative |-> {}]

InitIoU ==
    /\ pc = "calculate_iou"
    /\ \/ box1 \in GridBoxes /\ box2 \in GridBoxes
       \/ box1 \in Scenario1Boxes /\ box2 \in Scenario1Boxes
    /\ calls = {}
    /\ iou_ab = NotCalled
    /\ iou_ba = NotCalled
    /\ IdleList
    /\ IdleCluster
    /\ IdleMad
    /\ IdleRefine
    /\ IdleRedundancy
    /\ IdleBatch
    /\ IdleWbf
    /\ IdleFrames

CallIoU ==
    /\ pc = "calculate_iou"
    /\ "ab" \notin calls
    /\ iou_ab' = CalculateIoU(box1, box2)
    /\ calls' = calls \cup {"ab"}
    /\ UNCHANGED <<pc, box1, box2, iou_ba, listVars, batchVars, clusterVars, madVars, refineVars, redundancyVars, wbfVars, frames>>

CallIoUSwapped ==
    /\ pc = "calculate_iou"
    /\ "ba" \notin calls
    /\ iou_ba' = CalculateIoU(box2, box1)
    /\ calls' = calls \cup {"ba"}
    /\ UNCHANGED <<pc, box1, box2, iou_ab, listVars, batchVars, clusterVars, madVars, refineVars, redundancyVars, wbfVars, frames>>

NextIoU == CallIoU \/ CallIoUSwapped

SpecIoU == InitIoU /\ [][NextIoU]_vars

-----------------------------------------------------------------------------
(* Geometry of the claims about calculate_iou.                             *)

Area(b) == (b[3] - b[1]) * (b[4] - b[2])

WellFormed(b) == b[1] <= b[3] /\ b[2] <= b[4]

\* Width and height of the common region; <= 0 when there is none.
OverlapW(a, b) == Min2(a[3], b[3]) - Max2(a[1], b[1])

OverlapH(a, b) == Min2(a[4], b[4]) - Max2(a[2], b[2])

\* The boxes share no region of positive area: they are apart, or touch
\* along an edge or at a corner.
NoOverlap(a, b) == OverlapW(a, b) <= 0 \/ OverlapH(a, b) <= 0

\* C2: calculate_iou(a, b) equals calculate_iou(b, a) for every pair of
\* boxes, degenerate and malformed ones included.
C2_IoUSymmetric ==
    calls = {"ab", "ba"} => iou_ab = iou_ba

C2_Witness ==
    /\ calls = {"ab", "ba"}
    /\ box1 # box2
    /\ ~iou_ab.raised
    /\ RLt(Zero, iou_ab.value)
    /\ RLt(iou_ab.value, One)

\* C3: the value returned by calculate_iou is at least 0 and at most 1,
\* whatever the coordinates of the two boxes.
C3_IoUInUnitInterval ==
    "ab" \in calls =>
        /\ ~iou_ab.raised
        /\ RLe(Zero, iou_ab.value)
        /\ RLe(iou_ab.value, One)

C3_Witness ==
    /\ "ab" \in calls
    /\ ~WellFormed(box1)
    /\ Area(box2) > 0
    /\ iou_ab.value = Zero

\* C4 as stated: every box whose area (x2 - x1) * (y2 - y1) is positive has
\* calculate_iou(a, a) = 1.0.
C4_SelfIoUOne_PositiveArea ==
    ("ab" \in calls /\ box1 = box2 /\ Area(box1) > 0) =>
        (~iou_ab.raised /\ iou_ab.value = One)

\* C4 amended: every box with x1 < x2 and y1 < y2 has calculate_iou(a, a)
\* = 1.0.
C4_SelfIoUOne ==
    ("ab" \in calls /\ box1 = box2 /\ box1[1] < box1[3] /\ box1[2] < box1[4]) =>
        (~iou_ab.raised /\ iou_ab.value = One)

C4_Witness ==
    /\ "ab" \in calls
    /\ box1 = box2
    /\ box1[1] < box1[3]
    /\ box1[2] < box1[4]
    /\ iou_ab.value = One

\* C5: calculate_iou never raises, and it returns exactly 0.0 when the boxes
\* do not intersect, when they only touch along an edge or at a corner, and
\* when both have zero area (the union area is 0).
C5_IoUNeverFails ==
    "ab" \in calls =>
        /\ ~iou_ab.raised
        /\ (NoOverlap(box1, box2) \/ (Area(box1) = 0 /\ Area(box2) = 0))
              => iou_ab.value = Zero

\* Two zero-area boxes on the same segment: the union area is 0 and the
\* early return is not taken.
C5_Witness ==
    /\ "ab" \in calls
    /\ box1 = box2
    /\ WellFormed(box1)
    /\ Area(box1) = 0
    /\ ~iou_ab.raised
    /\ iou_ab.value = Zero

\* C14 as stated: calculate_iou returns a value above 0.8 for each of the
\* three pairs of the boxes (0.10,0.10,0.30,0.30), (0.11,0.11,0.31,0.29),
\* (0.09,0.12,0.29,0.31).
C14_ScenarioIoUAbove80 ==
    ("ab" \in calls /\ box1 \in Scenario1Boxes /\ box2 \in Scenario1Boxes
                    /\ box1 # box2)
        => (~iou_ab.raised /\ RLt(<<4, 5>>, iou_ab.value))

\* The IoU of each pair of the three boxes, whatever the argument order.
Scenario1IoU(a, b) ==
    LET second == <<11, 11, 31, 29>>
        third == <<9, 12, 29, 31>>
    IN  IF second \notin {a, b} THEN <<57, 73>>
        ELSE IF third \notin {a, b} THEN <<9, 11>>
        ELSE <<153, 217>>

\* C14 amended: calculate_iou returns a value above 0.7 for each of the
\* three pairs: 9/11 for the first and second box, 57/73 for the first and
\* third, 153/217 for the second and third.
C14_ScenarioIoUAbove70 ==
    ("ab" \in calls /\ box1 \in Scenario1Boxes /\ box2 \in Scenario1Boxes
                    /\ box1 # box2)
        => /\ ~iou_ab.raised
           /\ RLt(<<7, 10>>, iou_ab.value)
           /\ iou_ab.value = Scenario1IoU(box1, box2)

\* The second and third box: IoU 153/217, about 0.705.
C14_Witness ==
    /\ "ab" \in calls
    /\ box1 = <<11, 11, 31, 29>>
    /\ box2 = <<9, 12, 29, 31>>
    /\ iou_ab.value = <<153, 217>>
    /\ RLt(iou_ab.value, <<4, 5>>)

-----------------------------------------------------------------------------
(* Lists of boxes.  Indices are 1..n here and 0..n-1 in the source.        *)

\* x-extent [0,2], [0,3], [1,3] on one row: IoU 2/3, 2/3 and 1/3, a chain at
\* threshold 1/2.  <<0,0,3,2>> has IoU exactly 1/2 with <<0,0,3,1>>.
\* <<3,0,3,1>> has zero area: its IoU with every box, itself included, is 0,
\* as is the IoU of a malformed box (SpecIoU).
BoxPool ==
    { <<0, 0, 2, 1>>, <<0, 0, 3, 1>>, <<1, 0, 3, 1>>, <<0, 0, 3, 2>>,
      <<3, 0, 3, 1>> }

Labels == {0, 1}

BoxLists == UNION {[1..n -> BoxPool] : n \in 0..MaxBoxes}

IoUThresholds == {Zero, <<1, 2>>, One}

\* min_consensus: the default 0.2, the floor 0.1 of the score, and 0.5.
MinScores == {<<1, 10>>, <<1, 5>>, <<1, 2>>}

\* len(annotation_files): a few files, or twenty, where one box's share
\* 1/20 is below the floor 0.1.
AnnotatorCounts == (1..MaxAnnotators) \cup {20}

\* The three boxes in every order.
Scenario1Lists ==
    {f \in [1..3 -> Scenario1Boxes] : \A a, b \in 1..3 : a # b => f[a] # f[b]}

Range(f) == {f[k] : k \in DOMAIN f}

RECURSIVE SumInt(_)
SumInt(f) ==
    IF Len(f) = 0 THEN 0 ELSE f[1] + SumInt(Tail(f))

\* The boxes at the given indices, in the order of the indices.
Select(boxes, indices) == [k \in 1..Len(indices) |-> boxes[indices[k]]]

\* np.mean(bxs, axis=0): a coordinate of the result is in grid units.
MeanBox(bxs) ==
    [c \in 1..4 |-> Rat(SumInt([k \in 1..Len(bxs) |-> bxs[k][c]]), Len(bxs))]

\* m * m times the population variance of coordinate c, in grid units.
AxisVarTimesM2(bxs, c) ==
    LET m == Len(bxs)
        s1 == SumInt([k \in 1..m |-> bxs[k][c]])
        s2 == SumInt([k \in 1..m |-> bxs[k][c] * bxs[k][c]])
    IN  m * s2 - s1 * s1

\* np.var(bxs, axis=0).mean(), the coordinates taken as k / scale.
Variance(bxs) ==
    LET m == Len(bxs)
    IN  Rat(SumInt([c \in 1..4 |-> AxisVarTimesM2(bxs, c)]),
            4 * m * m * scale * scale)

IoU(a, b) == CalculateIoU(a, b).value

-----------------------------------------------------------------------------
(* cluster_boxes_by_similarity                                             *)

\* Mutant: j joins when its IoU with a member is >= the threshold.
RECURSIVE GrowCluster_AtLeast(_, _, _, _, _, _, _)
GrowCluster_AtLeast(cluster, j, seed, vis, boxes, labels, thr) ==
    IF j > Len(boxes) THEN cluster
    ELSE IF vis[j] \/ labels[seed] # labels[j]
         THEN GrowCluster_AtLeast(cluster, j + 1, seed, vis, boxes, labels,
                                  thr)
         ELSE IF \E k \in 1..Len(cluster) :
                     RLe(thr, IoU(boxes[cluster[k]], boxes[j]))
              THEN GrowCluster_AtLeast(Append(cluster, j), j + 1, seed, vis,
                                       boxes, labels, thr)
              ELSE GrowCluster_AtLeast(cluster, j + 1, seed, vis, boxes,
                                       labels, thr)

\* Mutant: j is compared with the seed only, not with every member.
RECURSIVE GrowCluster_SeedOnly(_, _, _, _, _, _, _)
GrowCluster_SeedOnly(cluster, j, seed, vis, boxes, labels, thr) ==
    IF j > Len(boxes) THEN cluster
    ELSE IF vis[j] \/ labels[seed] # labels[j]
         THEN GrowCluster_SeedOnly(cluster, j + 1, seed, vis, boxes, labels,
                                   thr)
         ELSE IF RLt(thr, IoU(boxes[seed], boxes[j]))
              THEN GrowCluster_SeedOnly(Append(cluster, j), j + 1, seed, vis,
                                        boxes, labels, thr)
              ELSE GrowCluster_SeedOnly(cluster, j + 1, seed, vis, boxes,
                                        labels, thr)

\* Mutant: a box that joins is put at the front of the cluster.
RECURSIVE GrowCluster_Prepend(_, _, _, _, _, _, _)
GrowCluster_Prepend(cluster, j, seed, vis, boxes, labels, thr) ==
    IF j > Len(boxes) THEN cluster
    ELSE IF vis[j] \/ labels[seed] # labels[j]
         THEN GrowCluster_Prepend(cluster, j + 1, seed, vis, boxes, labels,
                                  thr)
         ELSE IF \E k \in 1..Len(cluster) :
                     RLt(thr, IoU(boxes[cluster[k]], boxes[j]))
              THEN GrowCluster_Prepend(<<j>> \o cluster, j + 1, seed, vis,
                                       boxes, labels, thr)
              ELSE GrowCluster_Prepend(cluster, j + 1, seed, vis, boxes,
                                       labels, thr)

\* The loop over j of one seed, from j on: cluster is the list grown so far.
\* An index marked in this loop is never met again by it, so vis is the
\* marker array as it was when the seed was opened.
RECURSIVE GrowCluster(_, _, _, _, _, _, _)
GrowCluster(cluster, j, seed, vis, boxes, labels, thr) ==
    IF j > Len(boxes) THEN cluster
    ELSE IF vis[j] \/ labels[seed] # labels[j]
         THEN GrowCluster(cluster, j + 1, seed, vis, boxes, labels, thr)
         ELSE IF \E k \in 1..Len(cluster) :
                     RLt(thr, IoU(boxes[cluster[k]], boxes[j]))
              THEN GrowCluster(Append(cluster, j), j + 1, seed, vis, boxes,
                               labels, thr)
              ELSE GrowCluster(cluster, j + 1, seed, vis, boxes, labels, thr)

\* Mutant: only the seed is marked visited, not the indices that joined.
MarkVisited_SeedOnly(vis, cluster) ==
    [k \in DOMAIN vis |-> vis[k] \/ k = cluster[1]]

MarkVisited(vis, cluster) ==
    [k \in DOMAIN vis |-> vis[k] \/ k \in Range(cluster)]

-----------------------------------------------------------------------------
(* calculate_cluster_consensus                                             *)

\* Mutant: the score is the cluster's share of the boxes, not of the annotators.
CalculateClusterConsensus_ShareOfBoxes(cluster_indices, boxes, labels, n) ==
    LET cluster_boxes == Select(boxes, cluster_indices)
        consensus_score == Rat(Len(cluster_indices), Len(boxes))
        variance_penalty == RMin(<<1, 5>>, RMul(Variance(cluster_boxes), <<10, 1>>))
    IN  [box   |-> MeanBox(cluster_boxes),
         score |-> IF Len(cluster_indices) > 1
                   THEN RMax(<<1, 10>>, RSub(consensus_score, variance_penalty))
                   ELSE consensus_score,
         label |-> labels[cluster_indices[1]]]

\* Mutant: the penalty and the floor 0.1 are applied to every cluster, a
\* cluster of one box included.
CalculateClusterConsensus_AlwaysFloor(cluster_indices, boxes, labels, n) ==
    LET cluster_boxes == Select(boxes, cluster_indices)
        consensus_score == Rat(Len(cluster_indices), n)
        variance_penalty == RMin(<<1, 5>>, RMul(Variance(cluster_boxes), <<10, 1>>))
    IN  [box   |-> MeanBox(cluster_boxes),
         score |-> RMax(<<1, 10>>, RSub(consensus_score, variance_penalty)),
         label |-> labels[cluster_indices[1]]]

CalculateClusterConsensus(cluster_indices, boxes, labels, n) ==
    LET cluster_boxes == Select(boxes, cluster_indices)
        cluster_label == labels[cluster_indices[1]]
        avg_box == MeanBox(cluster_boxes)
        consensus_score == Rat(Len(cluster_indices), n)
        variance == Variance(cluster_boxes)
        variance_penalty == RMin(<<1, 5>>, RMul(variance, <<10, 1>>))
    IN  [box   |-> avg_box,
         score |-> IF Len(cluster_indices) > 1
                   THEN RMax(<<1, 10>>, RSub(consensus_score, variance_penalty))
                   ELSE consensus_score,
         label |-> cluster_label]

\* Mutant: a result is kept when its score is > min_score.
RECURSIVE FilterByScore_Strict(_, _)
FilterByScore_Strict(entries, min_score) ==
    IF Len(entries) = 0 THEN <<>>
    ELSE IF RLt(min_score, entries[1].score)
         THEN <<entries[1]>> \o FilterByScore_Strict(Tail(entries), min_score)
         ELSE FilterByScore_Strict(Tail(entries), min_score)

\* The results whose score is >= min_score, in order.
RECURSIVE FilterByScore(_, _)
FilterByScore(entries, min_score) ==
    IF Len(entries) = 0 THEN <<>>
    ELSE IF RLe(min_score, entries[1].score)
         THEN <<entries[1]>> \o FilterByScore(Tail(entries), min_score)
         ELSE FilterByScore(Tail(entries), min_score)

-----------------------------------------------------------------------------
(* SpecCluster: process_with_clustering on the flattened boxes of one      *)
(* image.  The outer loop of cluster_boxes_by_similarity takes one step    *)
(* per index.                                                              *)

InitCluster ==
    /\ pc = "process_with_clustering"
    /\ \/ /\ all_boxes \in BoxLists
          /\ all_labels \in [1..Len(all_boxes) -> Labels]
          /\ scale = GridScale
       \/ /\ all_boxes \in Scenario1Lists
          /\ all_labels = [k \in 1..3 |-> 0]
          /\ scale = 100
    /\ IdleIoU
    /\ IdleCluster
    /\ IdleMad
    /\ IdleRefine
    /\ IdleRedundancy
    /\ IdleBatch
    /\ IdleWbf
    /\ IdleFrames

\* if not all_boxes: return [], [], []
PWC_ReturnEmpty ==
    /\ pc = "process_with_clustering"
    /\ all_boxes = <<>>
    /\ pc' = "done"
    /\ UNCHANGED <<iouVars, listVars, batchVars, clusterVars, madVars, refineVars, redundancyVars, wbfVars, frames>>

\* The call of cluster_boxes_by_similarity up to its loop.
PWC_StartClustering ==
    /\ pc = "process_with_clustering"
    /\ all_boxes # <<>>
    /\ \E thr \in IoUThresholds : iou_threshold' = thr
    /\ i' = 1
    /\ visited' = [k \in 1..Len(all_boxes) |-> FALSE]
    /\ clusters' = <<>>
    /\ pc' = "cluster_loop"
    /\ UNCHANGED <<iouVars, listVars, batchVars, madVars, refineVars, redundancyVars, wbfVars, n_annotators, min_consensus,
                   cluster_results, final_boxes, final_scores, final_labels, frames>>

\* One iteration of `for i in range(n)`.
ClusterSeed ==
    /\ pc = "cluster_loop"
    /\ i <= Len(all_boxes)
    /\ IF visited[i]
       THEN UNCHANGED <<visited, clusters>>
       ELSE LET cluster == GrowCluster(<<i>>, i + 1, i, visited, all_boxes,
                                       all_labels, iou_threshold)
            IN  /\ visited' = MarkVisited(visited, cluster)
                /\ clusters' = Append(clusters, cluster)
    /\ i' = i + 1
    /\ UNCHANGED <<pc, iouVars, listVars, batchVars, madVars, refineVars, redundancyVars, wbfVars, n_annotators,
                   iou_threshold, min_consensus, cluster_results, final_boxes,
                   final_scores, final_labels, frames>>

\* cluster_boxes_by_similarity returns; the loop over the clusters and the
\* filter by min_consensus.  n_annotators = len(annotation_files) and
\* min_consensus are first read here: any number of files >= 1 can hold the
\* flattened boxes, a file may be empty or missing.
PWC_Consensus ==
    /\ pc = "cluster_loop"
    /\ i > Len(all_boxes)
    /\ \E N \in AnnotatorCounts : n_annotators' = N
    /\ \E m \in MinScores : min_consensus' = m
    /\ cluster_results' =
          [k \in 1..Len(clusters) |->
              CalculateClusterConsensus(clusters[k], all_boxes, all_labels,
                                        n_annotators')]
    /\ LET kept == FilterByScore(cluster_results', min_consensus')
       IN  /\ final_boxes' = [k \in 1..Len(kept) |-> kept[k].box]
           /\ final_scores' = [k \in 1..Len(kept) |-> kept[k].score]
           /\ final_labels' = [k \in 1..Len(kept) |-> kept[k].label]
    /\ pc' = "done"
    /\ UNCHANGED <<iouVars, listVars, batchVars, madVars, refineVars, redundancyVars, wbfVars, iou_threshold, i, visited,
                   clusters, frames>>

NextCluster ==
    \/ PWC_ReturnEmpty
    \/ PWC_StartClustering
    \/ ClusterSeed
    \/ PWC_Consensus

SpecCluster == InitCluster /\ [][NextCluster]_vars

\* cluster_boxes_by_similarity has returned.
Clustered == pc \in {"cluster_loop", "done"} /\ i > Len(all_boxes)

\* The number of clusters that hold index x.
Occurrences(x) ==
    Cardinality({k \in 1..Len(clusters) : x \in Range(clusters[k])})

\* C1: the clusters returned by cluster_boxes_by_similarity partition the
\* indices: every index is in exactly one cluster, once, and the indices of
\* one cluster all have the same class label.
C1_ClustersPartition ==
    Clustered =>
        /\ \A x \in 1..Len(all_boxes) : Occurrences(x) = 1
        /\ \A k \in 1..Len(clusters) :
              /\ Range(clusters[k]) \subseteq 1..Len(all_boxes)
              /\ Cardinality(Range(clusters[k])) = Len(clusters[k])
              /\ \A x, y \in Range(clusters[k]) : all_labels[x] = all_labels[y]

\* A cluster of two boxes next to a cluster of another label.
C1_Witness ==
    /\ Clustered
    /\ Len(clusters) = 2
    /\ Len(clusters[1]) = 2
    /\ all_labels[clusters[1][1]] # all_labels[clusters[2][1]]
    /\ all_boxes[1] # all_boxes[2]

\* C7: every score of the proportion strategy lies in [0,1].
C7_ProportionScoreInUnitInterval ==
    pc = "done" =>
        \A k \in 1..Len(cluster_results) :
            /\ RLe(Zero, cluster_results[k].score)
            /\ RLe(cluster_results[k].score, One)

\* All the boxes of the cluster are the same box.
Identical(cluster) ==
    \A x, y \in Range(cluster) : all_boxes[x] = all_boxes[y]

\* C10: a cluster of N identical boxes, N the number of annotators, gets the
\* score 1.0 exactly.
C10_FullAgreementScoresOne ==
    pc = "done" =>
        \A k \in 1..Len(clusters) :
            (Len(clusters[k]) = n_annotators /\ Identical(clusters[k]))
                => cluster_results[k].score = One

C10_Witness ==
    /\ pc = "done"
    /\ n_annotators = 3
    /\ Len(clusters) = 1
    /\ Len(clusters[1]) = 3
    /\ Identical(clusters[1])
    /\ cluster_results[1].score = One

\* No other box of the label of x has IoU above the threshold with x.
NoCounterpart(x) ==
    \A y \in 1..Len(all_boxes) :
        (y # x /\ all_labels[y] = all_labels[x])
            => RLe(IoU(all_boxes[x], all_boxes[y]), iou_threshold)

\* C15: a box that no other box of its class overlaps with IoU above the
\* threshold is a cluster of its own, and the score of that cluster is
\* exactly 1 / n_annotators: no penalty is subtracted and the floor 0.1 is
\* not applied.
C15_SingletonScore ==
    pc = "done" =>
        \A x \in 1..Len(all_boxes) :
            NoCounterpart(x) =>
                \E k \in 1..Len(clusters) :
                    /\ clusters[k] = <<x>>
                    /\ cluster_results[k].score = <<1, n_annotators>>

\* Twenty files: the lone box scores 1/20, below the floor, beside a
\* cluster of two boxes of its class whose score is the floor 1/10.
C15_Witness ==
    /\ pc = "done"
    /\ n_annotators = 20
    /\ Len(all_boxes) = 3
    /\ \A x, y \in 1..3 : all_labels[x] = all_labels[y]
    /\ \E x \in 1..3 : \E k, l \in 1..Len(clusters) :
          /\ NoCounterpart(x)
          /\ clusters[k] = <<x>>
          /\ cluster_results[k].score = <<1, 20>>
          /\ Len(clusters[l]) = 2
          /\ cluster_results[l].score = <<1, 10>>

\* Boxes x and y have IoU above the threshold of the call.
Link(x, y) == RLt(iou_threshold, IoU(all_boxes[x], all_boxes[y]))

\* The indices that a path of links joins to an index of S, S included.
RECURSIVE LinkedTo(_, _)
LinkedTo(S, rounds) ==
    IF rounds = 0 THEN S
    ELSE LinkedTo(S \cup {y \in 1..Len(all_boxes) : \E x \in S : Link(x, y)},
                  rounds - 1)

\* Each annotator gave one box, all of one class.
OneBoxEach ==
    /\ pc = "done"
    /\ all_boxes # <<>>
    /\ Len(all_boxes) = n_annotators
    /\ \A x, y \in 1..Len(all_boxes) : all_labels[x] = all_labels[y]

\* The mean over the four axes of the variance of the members, from the
\* squared differences of the pairs: var = sum (x_j - x_k)^2 / (2 m^2).
MeanAxisVariance(bxs) ==
    LET m == Len(bxs)
        sq(c) == [p \in 1..(m * m) |->
                     LET j == ((p - 1) \div m) + 1
                         k == ((p - 1) % m) + 1
                     IN  (bxs[j][c] - bxs[k][c]) * (bxs[j][c] - bxs[k][c])]
    IN  Rat(SumInt(sq(1)) + SumInt(sq(2)) + SumInt(sq(3)) + SumInt(sq(4)),
            2 * m * m * 4 * scale * scale)

\* process_with_clustering returned one box: that of a cluster of all the
\* boxes, with the score 1.0 - min(0.2, 10 * variance) and the mean of the
\* members as coordinates.
OneConsensusBox ==
    /\ Len(clusters) = 1
    /\ Len(clusters[1]) = n_annotators
    /\ Len(final_boxes) = 1
    /\ Len(final_scores) = 1
    /\ Len(final_labels) = 1
    /\ final_labels[1] = all_labels[1]
    /\ final_scores[1] =
          RSub(One, RMin(<<1, 5>>, RMul(<<10, 1>>, MeanAxisVariance(all_boxes))))
    /\ \A c \in 1..4 :
          RMul(final_boxes[1][c], <<Len(all_boxes), 1>>)
              = <<SumInt([k \in 1..Len(all_boxes) |-> all_boxes[k][c]]), 1>>

\* The three boxes of the example at the threshold 0.5 give one cluster of
\* size 3.
Scenario1OneCluster ==
    (pc = "done" /\ all_boxes \in Scenario1Lists /\ iou_threshold = <<1, 2>>)
        => (Len(clusters) = 1 /\ Len(clusters[1]) = 3)

C20_SingleLinkChaining ==
    \A k \in 1..Len(clusters) :
        \A p \in 2..Len(clusters[k]) :
            \E q \in 1..(p - 1) : Link(clusters[k][q], clusters[k][p])

\* A chain: boxes A, B, C in one cluster, C joined through B, and
\* iou(A, C) = 1/3 is below the threshold 1/2.
C20_Witness ==
    /\ Clustered
    /\ iou_threshold = <<1, 2>>
    /\ clusters = << <<1, 2, 3>> >>
    /\ Link(1, 2)
    /\ Link(2, 3)
    /\ ~Link(1, 3)
    /\ IoU(all_boxes[1], all_boxes[3]) = <<1, 3>>

\* C21: the clusters are in the order of their seeds.  The first index of a
\* cluster is its smallest, the first indices grow strictly from one cluster
\* to the next, and the indices inside a cluster are in increasing order.
\* This holds of the list as it is built and so of the list returned.
C21_ClustersInSeedOrder ==
    /\ \A k \in 1..Len(clusters) :
          /\ \A x \in Range(clusters[k]) : clusters[k][1] <= x
          /\ \A p \in 1..(Len(clusters[k]) - 1) :
                clusters[k][p] < clusters[k][p + 1]
    /\ \A k \in 1..(Len(clusters) - 1) : clusters[k][1] < clusters[k + 1][1]

\* The clusters interleave: indices 1 and 3 in the first, 2 in the second.
C21_Witness ==
    /\ Clustered
    /\ clusters = << <<1, 3>>, <<2>> >>
    /\ all_labels[1] = all_labels[2]

\* C26: two boxes of one label whose IoU is above the threshold are in the
\* same cluster when cluster_boxes_by_similarity has returned.
C26_OverlappingBoxesShareCluster ==
    Clustered =>
        \A x, y \in 1..Len(all_boxes) :
            (all_labels[x] = all_labels[y] /\ Link(x, y))
                => \E k \in 1..Len(clusters) : {x, y} \subseteq Range(clusters[k])

-----------------------------------------------------------------------------
(* remove_outliers_mad                                                     *)

\* The k-th smallest of the values, k in 1..Len(values).
KthSmallest(values, k) ==
    CHOOSE v \in Range(values) :
        /\ Cardinality({j \in DOMAIN values : values[j] < v}) < k
        /\ Cardinality({j \in DOMAIN values : values[j] <= v}) >= k

\* Twice np.median(values): the middle value, or the mean of the two middle
\* values of an even number of them.
Median2(values) ==
    LET m == Len(values)
    IN  IF m % 2 = 1
        THEN 2 * KthSmallest(values, (m + 1) \div 2)
        ELSE KthSmallest(values, m \div 2) + KthSmallest(values, m \div 2 + 1)

\* Coordinate c of every box.
Column(bxs, c) == [k \in 1..Len(bxs) |-> bxs[k][c]]

\* Twice np.abs(boxes_array - median) of coordinate c, per box.
AbsDev2(bxs, c) ==
    LET med2 == Median2(Column(bxs, c))
    IN  [k \in 1..Len(bxs) |-> Abs(2 * bxs[k][c] - med2)]

\* Four times the MAD of coordinate c, in grid units.
Mad4(bxs, c) == Median2(AbsDev2(bxs, c))

\* Mutant: a zero mad gives the deviation 0, not |value - median| / 1e-6.
Deviation_ZeroMadIsZero(bxs, k, c) ==
    IF Mad4(bxs, c) = 0
    THEN Zero
    ELSE Rat(2 * AbsDev2(bxs, c)[k], Mad4(bxs, c))

\* deviations[k][c]: |value - median| / mad, a zero mad replaced by 1e-6.
\* The ratio does not depend on the unit when mad # 0; under the 1e-6 the
\* deviation is the real one, grid units over scale.
Deviation(bxs, k, c) ==
    IF Mad4(bxs, c) = 0
    THEN Rat(AbsDev2(bxs, c)[k] * 1000000, 2 * scale)
    ELSE Rat(2 * AbsDev2(bxs, c)[k], Mad4(bxs, c))

\* np.max(deviations, axis=1)[k]
MaxDeviation(bxs, k) ==
    RMax(RMax(Deviation(bxs, k, 1), Deviation(bxs, k, 2)),
         RMax(Deviation(bxs, k, 3), Deviation(bxs, k, 4)))

\* Mutant: a box whose deviation equals the threshold is kept.
RECURSIVE Inliers_AtMost(_, _, _)
Inliers_AtMost(bxs, threshold, lo) ==
    IF lo > Len(bxs) THEN <<>>
    ELSE IF RLe(MaxDeviation(bxs, lo), threshold)
         THEN <<lo>> \o Inliers_AtMost(bxs, threshold, lo + 1)
         ELSE Inliers_AtMost(bxs, threshold, lo + 1)

\* The indices of lo..Len(bxs) that satisfy the test, in increasing order.
RECURSIVE Inliers(_, _, _)
Inliers(bxs, threshold, lo) ==
    IF lo > Len(bxs) THEN <<>>
    ELSE IF RLt(MaxDeviation(bxs, lo), threshold)
         THEN <<lo>> \o Inliers(bxs, threshold, lo + 1)
         ELSE Inliers(bxs, threshold, lo + 1)

\* Mutant: the inliers are returned as they are, even when there are none.
RemoveOutliersMad_NoFallback(bxs, threshold) ==
    IF Len(bxs) <= 2
    THEN [k \in 1..Len(bxs) |-> k]
    ELSE Inliers(bxs, threshold, 1)

RemoveOutliersMad(bxs, threshold) ==
    IF Len(bxs) <= 2
    THEN [k \in 1..Len(bxs) |-> k]
    ELSE LET inliers == Inliers(bxs, threshold, 1)
         IN  IF inliers # <<>> THEN inliers ELSE <<1>>

-----------------------------------------------------------------------------
(* SpecMad: remove_outliers_mad on every list of pool boxes.               *)

MadThresholds == {Zero, <<2, 1>>, <<5, 2>>}

InitMad ==
    /\ pc = "remove_outliers_mad"
    /\ current_boxes \in UNION {[1..n -> BoxPool] : n \in 0..MaxMadBoxes}
    /\ mad_threshold = Zero
    /\ inlier_indices = <<>>
    /\ IdleIoU
    /\ IdleList
    /\ IdleCluster
    /\ IdleRefine
    /\ IdleRedundancy
    /\ IdleBatch
    /\ IdleWbf
    /\ IdleFrames

CallRemoveOutliersMad ==
    /\ pc = "remove_outliers_mad"
    /\ \E t \in MadThresholds :
          /\ mad_threshold' = t
          /\ inlier_indices' = RemoveOutliersMad(current_boxes, t)
    /\ pc' = "returned"
    /\ UNCHANGED <<iouVars, listVars, batchVars, clusterVars, refineVars, redundancyVars, wbfVars,
                   current_boxes, frames>>

NextMad == CallRemoveOutliersMad

SpecMad == InitMad /\ [][NextMad]_vars

\* C6: for a non-empty list of boxes and any threshold, remove_outliers_mad
\* returns a non-empty list of valid indices, none repeated.
C6_InliersNonEmptyValid ==
    (pc = "returned" /\ current_boxes # <<>>) =>
        /\ inlier_indices # <<>>
        /\ Range(inlier_indices) \subseteq 1..Len(current_boxes)
        /\ Cardinality(Range(inlier_indices)) = Len(inlier_indices)

\* Every box fails the test under the threshold 2.5 and the first is kept.
C6_Witness ==
    /\ pc = "returned"
    /\ Len(current_boxes) >= 3
    /\ mad_threshold = <<5, 2>>
    /\ \A k \in 1..Len(current_boxes) :
          ~RLt(MaxDeviation(current_boxes, k), mad_threshold)
    /\ inlier_indices = <<1>>

\* The values in increasing order.
Sorted(values) ==
    CHOOSE s \in [1..Len(values) -> Range(values)] :
        /\ \A p \in 1..(Len(values) - 1) : s[p] <= s[p + 1]
        /\ \A v \in Range(values) :
              Cardinality({p \in 1..Len(values) : s[p] = v})
                  = Cardinality({p \in 1..Len(values) : values[p] = v})

\* Twice the median, read off the sorted values.
SortedMedian2(values) ==
    LET m == Len(values)
        s == Sorted(values)
    IN  s[(m + 1) \div 2] + s[(m \div 2) + 1]

\* |value - median| / MAD < threshold for coordinate c of box k, without a
\* division: d2 is twice the distance from the median and mad4 four times
\* the MAD, both in grid units; a zero MAD stands for 1e-6.
BelowThreshold(k, c) ==
    LET column == [j \in 1..Len(current_boxes) |-> current_boxes[j][c]]
        med2 == SortedMedian2(column)
        dist2 == [j \in 1..Len(current_boxes) |-> Abs(2 * column[j] - med2)]
        mad4 == SortedMedian2(dist2)
    IN  IF mad4 = 0
        THEN dist2[k] * 1000000 * mad_threshold[2]
                 < mad_threshold[1] * 2 * scale
        ELSE 2 * dist2[k] * mad_threshold[2] < mad_threshold[1] * mad4

\* The boxes whose largest deviation is below the threshold.
AllBelowThreshold ==
    {k \in 1..Len(current_boxes) : \A c \in 1..4 : BelowThreshold(k, c)}

\* C22: remove_outliers_mad returns every index, in order, for at most two
\* boxes.  For three or more it returns, in increasing order, exactly the
\* indices whose largest |value - median| / MAD over the four coordinates
\* (a zero MAD replaced by 1e-6) is strictly below the threshold, and the
\* first index alone when there is no such index.
C22_InliersAreBelowThreshold ==
    pc = "returned" =>
        IF Len(current_boxes) <= 2
        THEN inlier_indices = [k \in 1..Len(current_boxes) |-> k]
        ELSE IF AllBelowThreshold = {}
             THEN inlier_indices = <<1>>
             ELSE /\ Range(inlier_indices) = AllBelowThreshold
                  /\ \A p \in 1..(Len(inlier_indices) - 1) :
                        inlier_indices[p] < inlier_indices[p + 1]

\* Three boxes at the threshold 2.0: the third is at twice the MAD from
\* the median of x1, a deviation equal to the threshold, and is dropped;
\* the other coordinates have a zero MAD.
C22_Witness ==
    /\ pc = "returned"
    /\ current_boxes = << <<0, 0, 3, 1>>, <<1, 0, 3, 1>>, <<3, 0, 3, 1>> >>
    /\ mad_threshold = <<2, 1>>
    /\ MaxDeviation(current_boxes, 3) = mad_threshold
    /\ Mad4(current_boxes, 3) = 0
    /\ AllBelowThreshold = {1, 2}
    /\ inlier_indices = <<1, 2>>

-----------------------------------------------------------------------------
(* iterative_refinement                                                    *)

\* The indices of the boxes with the target's label whose IoU with the
\* target is above the threshold, in increasing order, from lo on.
RECURSIVE FindSimilarBoxes(_, _, _, _, _, _)
FindSimilarBoxes(target_box, target_label, boxes, labels, thr, lo) ==
    IF lo > Len(boxes) THEN <<>>
    ELSE IF labels[lo] = target_label /\ RLt(thr, IoU(target_box, boxes[lo]))
         THEN <<lo>> \o FindSimilarBoxes(target_box, target_label, boxes,
                                         labels, thr, lo + 1)
         ELSE FindSimilarBoxes(target_box, target_label, boxes, labels, thr,
                               lo + 1)

\* Mutant: the loop runs while iteration <= max_iterations.
RECURSIVE RefineLoop_OneMore(_, _, _, _)
RefineLoop_OneMore(current, history, iteration, max_iter) ==
    IF iteration > max_iter
    THEN [current_boxes |-> current, iteration_history |-> history,
          filter_calls |-> iteration]
    ELSE LET inliers == RemoveOutliersMad(current, <<5, 2>>)
             kept == Select(current, inliers)
         IN  IF Len(kept) <= 1
             THEN [current_boxes |-> kept, iteration_history |-> history,
                   filter_calls |-> iteration + 1]
             ELSE RefineLoop_OneMore(kept, Append(history, kept),
                                     iteration + 1, max_iter)

\* `for iteration in range(max_iterations)` from `iteration` on: the boxes
\* left and the history when the loop ends, and filter_calls, the number of
\* calls of remove_outliers_mad the whole loop has made.
RECURSIVE RefineLoop(_, _, _, _)
RefineLoop(current, history, iteration, max_iter) ==
    IF iteration >= max_iter
    THEN [current_boxes |-> current, iteration_history |-> history,
          filter_calls |-> iteration]
    ELSE LET inliers == RemoveOutliersMad(current, <<5, 2>>)
             kept == Select(current, inliers)
         IN  IF Len(kept) <= 1
             THEN [current_boxes |-> kept, iteration_history |-> history,
                   filter_calls |-> iteration + 1]
             ELSE RefineLoop(kept, Append(history, kept), iteration + 1,
                             max_iter)

\* p / q for q > 0, the common factors removed before multiplying.
RDiv(p, q) ==
    LET a == Rat(p[1], q[1])
        b == Rat(q[2], p[2])
    IN  Rat(a[1] * b[1], a[2] * b[2])

\* x + 1e-6
PlusEpsilon(x) == Rat(x[1] * 1000000 + x[2], x[2] * 1000000)

\* Mutant: the convergence of a history of one entry is 1.0.
Convergence_SingleEntryOne(history) ==
    IF Len(history) > 1
    THEN LET initial_var == Variance(history[1])
             final_var == Variance(history[Len(history)])
         IN  RMax(Zero, RMin(One, RSub(One, RDiv(final_var,
                                                 PlusEpsilon(initial_var)))))
    ELSE One

\* max(0, min(1, 1.0 - final_var / (initial_var + 1e-6))), or 0.5 when the
\* history holds the initial set only.
Convergence(history) ==
    IF Len(history) > 1
    THEN LET initial_var == Variance(history[1])
             final_var == Variance(history[Len(history)])
         IN  RMax(Zero, RMin(One, RSub(One, RDiv(final_var,
                                                 PlusEpsilon(initial_var)))))
    ELSE <<1, 2>>

\* Mutant: the retention rate is n_boxes / n_final.
StabilityTerms_RetentionInverted(n_boxes, current, history) ==
    LET variance == IF Len(current) > 1 THEN Variance(current) ELSE Zero
    IN  [quantity       |-> RMin(One, Rat(n_boxes, 5)),
         retention_rate |-> Rat(n_boxes, Len(current)),
         low_variance   |-> RSub(One, RMin(One, RMul(variance, <<10, 1>>))),
         convergence    |-> Convergence(history)]

\* The four terms of the stability score, which is
\* 0.4 * quantity + 0.3 * retention_rate + 0.2 * low_variance
\* + 0.1 * convergence.
StabilityTerms(n_boxes, current, history) ==
    LET variance == IF Len(current) > 1 THEN Variance(current) ELSE Zero
    IN  [quantity       |-> RMin(One, Rat(n_boxes, 5)),
         retention_rate |-> Rat(Len(current), n_boxes),
         low_variance   |-> RSub(One, RMin(One, RMul(variance, <<10, 1>>))),
         convergence    |-> Convergence(history)]

\* Mutant: the retention rate is subtracted instead of added.
Small10_RetentionSubtracted(t) ==
    RAdd(RSub(RMul(<<4, 1>>, t.quantity), RMul(<<3, 1>>, t.retention_rate)),
         RMul(<<2, 1>>, t.low_variance))

\* Ten times the first three weighted terms: 4 * quantity
\* + 3 * retention_rate + 2 * low_variance.  The convergence term is kept
\* apart, its denominator holds the 1e-6.
Small10(t) ==
    RAdd(RAdd(RMul(<<4, 1>>, t.quantity), RMul(<<3, 1>>, t.retention_rate)),
         RMul(<<2, 1>>, t.low_variance))

\* stability >= bound, that is 10 * bound - Small10 <= convergence.
StabilityAtLeast(t, bound) ==
    SafeLe(RSub(RMul(<<10, 1>>, bound), Small10(t)), t.convergence)

\* stability <= bound
StabilityAtMost(t, bound) ==
    SafeLe(t.convergence, RSub(RMul(<<10, 1>>, bound), Small10(t)))

\* The stability of t1 is <= the stability of t2.
StabilityLe(t1, t2) ==
    SafeLe(RSub(Small10(t1), Small10(t2)),
           IF t1.convergence = t2.convergence
           THEN Zero
           ELSE RSub(t2.convergence, t1.convergence))

\* The results whose stability is >= min_score, in order.
RECURSIVE FilterByStability(_, _)
FilterByStability(entries, min_score) ==
    IF Len(entries) = 0 THEN <<>>
    ELSE IF StabilityAtLeast(entries[1].stability, min_score)
         THEN <<entries[1]>> \o FilterByStability(Tail(entries), min_score)
         ELSE FilterByStability(Tail(entries), min_score)

\* What one seed appends to the result lists.
RefineGroup(similar_indices, seed, boxes, labels, max_iter) ==
    LET group == Select(boxes, similar_indices)
        out == RefineLoop(group, <<group>>, 0, max_iter)
    IN  [seed              |-> seed,
         similar_indices   |-> similar_indices,
         current_boxes     |-> out.current_boxes,
         iteration_history |-> out.iteration_history,
         filter_calls      |-> out.filter_calls,
         box               |-> MeanBox(out.current_boxes),
         stability         |-> StabilityTerms(Len(similar_indices),
                                              out.current_boxes,
                                              out.iteration_history),
         label             |-> labels[seed]]

-----------------------------------------------------------------------------
(* SpecRefine: process_with_iterative_refinement on the flattened boxes of *)
(* one image.  The outer loop of iterative_refinement takes one step per   *)
(* index.                                                                  *)

IterationCounts == {0, 1, 3}

MinStabilities == {<<3, 10>>, <<63, 100>>, <<4, 5>>}

\* Five boxes of one label, four of them the same box and one another box,
\* at any place in the list.
OutlierLists ==
    {[k \in 1..5 |-> IF k = p THEN o ELSE c] :
        c \in BoxPool, o \in BoxPool, p \in 1..5}

InitRefine ==
    /\ pc = "process_with_iterative_refinement"
    /\ \/ /\ all_boxes \in BoxLists
          /\ all_labels \in [1..Len(all_boxes) -> Labels]
       \/ /\ all_boxes \in OutlierLists
          /\ \E l \in Labels : all_labels = [k \in 1..5 |-> l]
    /\ scale = GridScale
    /\ IdleIoU
    /\ IdleCluster
    /\ IdleMad
    /\ IdleRefine
    /\ IdleRedundancy
    /\ IdleBatch
    /\ IdleWbf
    /\ IdleFrames

\* `if not all_boxes: return [], [], []`, or the call of
\* iterative_refinement up to its loop.
IR_Start ==
    /\ pc = "process_with_iterative_refinement"
    /\ IF all_boxes = <<>>
       THEN /\ pc' = "done"
            /\ UNCHANGED <<iou_threshold, i, refineVars>>
       ELSE /\ \E thr \in IoUThresholds : iou_threshold' = thr
            /\ \E m \in IterationCounts : max_iterations' = m
            /\ i' = 1
            /\ processed' = [k \in 1..Len(all_boxes) |-> FALSE]
            /\ refined' = <<>>
            /\ pc' = "refine_loop"
            /\ UNCHANGED <<min_stability, filtered>>
    /\ UNCHANGED <<iouVars, listVars, batchVars, madVars, redundancyVars, wbfVars, n_annotators,
                   min_consensus, visited, clusters, cluster_results,
                   final_boxes, final_scores, final_labels, frames>>

\* One iteration of `for i in range(n)`.
RefineSeed ==
    /\ pc = "refine_loop"
    /\ i <= Len(all_boxes)
    /\ LET similar_indices ==
               FindSimilarBoxes(all_boxes[i], all_labels[i], all_boxes,
                                all_labels, iou_threshold, 1)
       IN  IF processed[i] \/ similar_indices = <<>>
           THEN UNCHANGED <<processed, refined>>
           ELSE /\ processed' = [k \in DOMAIN processed |->
                                    processed[k] \/ k \in Range(similar_indices)]
                /\ refined' = Append(refined,
                                     RefineGroup(similar_indices, i, all_boxes,
                                                 all_labels, max_iterations))
    /\ i' = i + 1
    /\ UNCHANGED <<pc, iouVars, listVars, batchVars, madVars, redundancyVars, wbfVars,
                   max_iterations, min_stability, filtered, n_annotators,
                   iou_threshold, min_consensus, visited, clusters,
                   cluster_results, final_boxes, final_scores, final_labels, frames>>

\* iterative_refinement returns its three lists.
IR_Return ==
    /\ pc = "refine_loop"
    /\ i > Len(all_boxes)
    /\ pc' = "returned"
    /\ UNCHANGED <<iouVars, listVars, batchVars, clusterVars, madVars, refineVars, redundancyVars, wbfVars, frames>>

\* The filter by min_stability, which is first read here.
PWIR_Filter ==
    /\ pc = "returned"
    /\ \E m \in MinStabilities : min_stability' = m
    /\ filtered' = FilterByStability(refined, min_stability')
    /\ pc' = "done"
    /\ UNCHANGED <<iouVars, listVars, batchVars, clusterVars, madVars, redundancyVars, wbfVars,
                   max_iterations, processed, refined, frames>>

NextRefine == IR_Start \/ RefineSeed \/ IR_Return \/ PWIR_Filter

SpecRefine == InitRefine /\ [][NextRefine]_vars

\* C8: no box belongs to the similarity groups of two different seeds.
C8_GroupsDisjoint ==
    \A k, l \in 1..Len(refined) :
        k # l => Range(refined[k].similar_indices)
                     \cap Range(refined[l].similar_indices) = {}

\* The stability terms of t with another retention rate.
WithRetention(t, n_final, n_boxes) ==
    [t EXCEPT !.retention_rate = Rat(n_final, n_boxes)]

\* C11: every stability score computed by iterative_refinement is at least
\* 0 and at most 1, and with the group size, the variance of the survivors
\* and the convergence held fixed, a larger retention rate never gives a
\* smaller score.  Checked when iterative_refinement returns: refined holds
\* every score the call has computed.
C11_StabilityBoundedMonotone ==
    pc = "returned" =>
        \A k \in 1..Len(refined) :
            LET t == refined[k].stability
                n_boxes == Len(refined[k].similar_indices)
            IN  /\ StabilityAtLeast(t, Zero)
                /\ StabilityAtMost(t, One)
                /\ \A a, b \in 1..n_boxes :
                      a <= b => StabilityLe(WithRetention(t, a, n_boxes),
                                            WithRetention(t, b, n_boxes))

\* A group of three that lost one box: the score is strictly inside (0,1)
\* and strictly above the score of the same group with one survivor.
C11_Witness ==
    \E k \in 1..Len(refined) :
        LET t == refined[k].stability
        IN  /\ pc = "returned"
            /\ Len(refined[k].similar_indices) = 3
            /\ t.retention_rate = <<2, 3>>
            /\ ~StabilityAtMost(t, Zero)
            /\ ~StabilityAtLeast(t, One)
            /\ ~StabilityLe(t, WithRetention(t, 1, 3))

\* The boxes of the similarity group of result k.
GroupBoxes(k) == Select(all_boxes, refined[k].similar_indices)

\* Position p of the group holds the one box that differs from the four
\* others, which are all the same box.
ShiftedAt(group, p) ==
    /\ Len(group) = 5
    /\ \A a, b \in (1..5) \ {p} : group[a] = group[b]
    /\ \A a \in (1..5) \ {p} : group[a] # group[p]

Measure ==
    CASE pc = "process_with_iterative_refinement" -> Len(all_boxes) + 4
      [] pc = "refine_loop" -> (Len(all_boxes) + 1 - i) + 2
      [] pc = "returned" -> 1
      [] OTHER -> 0

\* The group was refined with at most max_iterations calls of the filter
\* and has its final box, the mean of a non-empty list of boxes.
RefinedWithinBound(group) ==
    /\ group.filter_calls <= max_iterations
    /\ Len(group.iteration_history) <= max_iterations + 1
    /\ group.current_boxes # <<>>
    /\ group.box = MeanBox(group.current_boxes)

\* C17: the refinement of a group ends after at most max_iterations calls
\* of the outlier filter, for max_iterations 0 included, and gives a final
\* box; iterative_refinement ends: every step of the call leaves strictly
\* less to do, and what is left is never negative.  A group is looked at
\* in the step that refines it.
C17_RefinementTerminates ==
    [][/\ Measure' < Measure
       /\ Measure' >= 0
       /\ refined' # refined => RefinedWithinBound(refined'[Len(refined')])]_vars

\* Three equal boxes: the filter removes nothing and is called three times.
C17_Witness ==
    /\ pc = "returned"
    /\ max_iterations = 3
    /\ \E k \in 1..Len(refined) :
          /\ refined[k].filter_calls = 3
          /\ Len(refined[k].current_boxes) = 3

\* C19: the loop stops when the filter removes no box, and a set is
\* appended to iteration_history only when the filter removed a box and
\* left more than one: no two consecutive entries of a history are equal,
\* and a history longer than the initial set records a removal.
C19_HistoryRecordsRemovals ==
    \A k \in 1..Len(refined) :
        LET history == refined[k].iteration_history
        IN  \A h \in 1..(Len(history) - 1) :
                /\ history[h] # history[h + 1]
                /\ Len(history[h + 1]) < Len(history[h])

\* C25: when iterative_refinement returns, every input box is a member of
\* at least one similarity group, and every seed is a member of its own
\* group.
C25_EveryBoxInAGroup ==
    pc = "returned" =>
        /\ \A x \in 1..Len(all_boxes) :
              \E k \in 1..Len(refined) : x \in Range(refined[k].similar_indices)
        /\ \A k \in 1..Len(refined) :
              refined[k].seed \in Range(refined[k].similar_indices)

\* C27: when the loop of a group has ended, the last entry of
\* iteration_history is current_boxes, the set that is averaged into the
\* final box.
C27_HistoryEndsWithSurvivors ==
    \A k \in 1..Len(refined) :
        LET history == refined[k].iteration_history
        IN  history[Len(history)] = refined[k].current_boxes

\* current_boxes of the group after n passes of the filter.
RECURSIVE CurrentBoxesAfter(_, _)
CurrentBoxesAfter(group, n) ==
    IF n = 0 THEN group
    ELSE LET before == CurrentBoxesAfter(group, n - 1)
         IN  Select(before, RemoveOutliersMad(before, <<5, 2>>))

\* C28: through the refinement of a group current_boxes is never empty,
\* never grows from one iteration to the next and holds boxes of the group
\* only; the retention rate is len(current_boxes) / len(group), above 0 and
\* at most 1.  Checked of every group when iterative_refinement returns.
C28_SurvivorsNonEmptyShrinking ==
    pc = "returned" =>
        \A k \in 1..Len(refined) :
            LET group == GroupBoxes(k)
                passes == refined[k].filter_calls
                rate == refined[k].stability.retention_rate
            IN  /\ \A n \in 0..passes :
                      /\ CurrentBoxesAfter(group, n) # <<>>
                      /\ Range(CurrentBoxesAfter(group, n))
                             \subseteq Range(group)
                      /\ n > 0 => Len(CurrentBoxesAfter(group, n))
                                      <= Len(CurrentBoxesAfter(group, n - 1))
                /\ refined[k].current_boxes = CurrentBoxesAfter(group, passes)
                /\ rate = Rat(Len(refined[k].current_boxes), Len(group))
                /\ RLt(Zero, rate)
                /\ RLe(rate, One)

\* A group of five that shrinks to four in the first pass and stays at
\* four in the two passes after it.
C28_Witness ==
    /\ pc = "returned"
    /\ \E k \in 1..Len(refined) :
          /\ Len(GroupBoxes(k)) = 5
          /\ refined[k].filter_calls = 3
          /\ Len(CurrentBoxesAfter(GroupBoxes(k), 1)) = 4
          /\ Len(refined[k].current_boxes) = 4
          /\ refined[k].stability.retention_rate = <<4, 5>>

\* The group of result k is one box.
SingleBoxGroup(k) == Len(refined[k].similar_indices) = 1

-----------------------------------------------------------------------------
(* SpecFusion: one call of process_with_clustering or of                   *)
(* process_with_iterative_refinement.                                      *)

InitFusion == InitCluster \/ InitRefine

NextFusion == NextCluster \/ NextRefine

SpecFusion == InitFusion /\ [][NextFusion]_vars

\* The p-th smallest index of the set S of indices.
NthOf(S, p) == CHOOSE k \in S : Cardinality({j \in S : j <= k}) = p

\* The indices of the cluster results that reach min_consensus.
ConsensusKept ==
    {k \in 1..Len(cluster_results) :
        RLe(min_consensus, cluster_results[k].score)}

\* The indices of the refined results that reach min_stability.
StabilityKept ==
    {k \in 1..Len(refined) :
        StabilityAtLeast(refined[k].stability, min_stability)}

\* C16: what process_with_clustering and process_with_iterative_refinement
\* return is the list of the per-cluster results whose score is >= the
\* minimum score, a score equal to it included, in the order of the seeds
\* of their clusters: the p-th returned result is the p-th result that
\* reaches the minimum.
C16_ReturnsResultsAtLeastMin ==
    pc = "done" =>
        /\ Len(cluster_results) = Len(clusters)
        /\ \A k, l \in 1..Len(clusters) :
              k < l => clusters[k][1] < clusters[l][1]
        /\ Len(final_boxes) = Cardinality(ConsensusKept)
        /\ Len(final_scores) = Cardinality(ConsensusKept)
        /\ Len(final_labels) = Cardinality(ConsensusKept)
        /\ \A p \in 1..Cardinality(ConsensusKept) :
              LET result == cluster_results[NthOf(ConsensusKept, p)]
              IN  /\ final_boxes[p] = result.box
                  /\ final_scores[p] = result.score
                  /\ final_labels[p] = result.label
        /\ \A k, l \in 1..Len(refined) :
              k < l => refined[k].seed < refined[l].seed
        /\ Len(filtered) = Cardinality(StabilityKept)
        /\ \A p \in 1..Cardinality(StabilityKept) :
              filtered[p] = refined[NthOf(StabilityKept, p)]

\* A lone box and then a cluster of two, twenty files and min_consensus
\* 0.1: the first result, 1/20, is dropped and the second, exactly 0.1, is
\* returned.
C16_Witness ==
    /\ pc = "done"
    /\ n_annotators = 20
    /\ min_consensus = <<1, 10>>
    /\ Len(clusters) = 2
    /\ Len(clusters[1]) = 1
    /\ cluster_results[1].score = <<1, 20>>
    /\ cluster_results[2].score = <<1, 10>>
    /\ final_scores = << <<1, 10>> >>
    /\ final_boxes = << cluster_results[2].box >>

\* The same for process_with_iterative_refinement: a group of one box,
\* stability 0.63, is dropped under min_stability 0.8 and the group of four
\* after it is returned.
C16_RefineDrops ==
    /\ pc = "done"
    /\ min_stability = <<4, 5>>
    /\ Len(refined) = 2
    /\ Len(refined[1].similar_indices) = 1
    /\ StabilityKept = {2}
    /\ filtered = << refined[2] >>

\* A group of one box is returned under min_stability 0.63, its stability.
C16_RefineKeepsEqual ==
    /\ pc = "done"
    /\ min_stability = <<63, 100>>
    /\ Len(refined) = 1
    /\ Len(refined[1].similar_indices) = 1
    /\ StabilityAtMost(refined[1].stability, min_stability)
    /\ filtered = refined

-----------------------------------------------------------------------------
(* The redundancy strategy: calculate_confidence_from_redundancy           *)
(* (approach1) and assign_confidence_scores (kiro_wbf).                    *)

RECURSIVE SumRat(_)
SumRat(f) ==
    IF Len(f) = 0 THEN Zero ELSE RAdd(f[1], SumRat(Tail(f)))

RECURSIVE MaxRat(_)
MaxRat(f) ==
    IF Len(f) = 1 THEN f[1] ELSE RMax(f[1], MaxRat(Tail(f)))

\* Mutant: a box is compared with itself too.
RECURSIVE Overlaps_WithSelf(_, _, _, _, _)
Overlaps_WithSelf(k, boxes, labels, thr, lo) ==
    IF lo > Len(boxes) THEN <<>>
    ELSE IF labels[k] = labels[lo] /\ RLt(thr, IoU(boxes[k], boxes[lo]))
         THEN <<IoU(boxes[k], boxes[lo])>>
                  \o Overlaps_WithSelf(k, boxes, labels, thr, lo + 1)
         ELSE Overlaps_WithSelf(k, boxes, labels, thr, lo + 1)

\* The list `overlaps` of box k: the IoU with every other box of the same
\* label that is above the threshold, for j from lo on.
RECURSIVE Overlaps(_, _, _, _, _)
Overlaps(k, boxes, labels, thr, lo) ==
    IF lo > Len(boxes) THEN <<>>
    ELSE IF /\ k # lo
            /\ labels[k] = labels[lo]
            /\ RLt(thr, IoU(boxes[k], boxes[lo]))
         THEN <<IoU(boxes[k], boxes[lo])>>
                  \o Overlaps(k, boxes, labels, thr, lo + 1)
         ELSE Overlaps(k, boxes, labels, thr, lo + 1)

\* Mutant: the score is not capped at 1.0.
CalculateConfidenceFromRedundancy_NoCap(boxes, labels, thr) ==
    [k \in 1..Len(boxes) |->
        LET overlaps == Overlaps(k, boxes, labels, thr, 1)
            n_overlaps == Len(overlaps)
            avg_iou == RDiv(SumRat(overlaps), <<n_overlaps, 1>>)
            max_iou == MaxRat(overlaps)
            score == RAdd(RAdd(<<1, 2>>, Rat(Min2(n_overlaps, 5), 10)),
                          RAdd(RMul(avg_iou, <<3, 10>>),
                               RMul(max_iou, <<1, 10>>)))
        IN  IF overlaps # <<>> THEN score ELSE <<3, 10>>]

CalculateConfidenceFromRedundancy(boxes, labels, thr) ==
    [k \in 1..Len(boxes) |->
        LET overlaps == Overlaps(k, boxes, labels, thr, 1)
            n_overlaps == Len(overlaps)
            avg_iou == RDiv(SumRat(overlaps), <<n_overlaps, 1>>)
            max_iou == MaxRat(overlaps)
            score == RAdd(RAdd(<<1, 2>>, Rat(Min2(n_overlaps, 5), 10)),
                          RAdd(RMul(avg_iou, <<3, 10>>),
                               RMul(max_iou, <<1, 10>>)))
        IN  IF overlaps # <<>> THEN RMin(One, score) ELSE <<3, 10>>]

AssignConfidenceScores(boxes, labels, thr) ==
    [k \in 1..Len(boxes) |->
        LET overlaps == Overlaps(k, boxes, labels, thr, 1)
            overlap_count == Len(overlaps)
            total_iou == SumRat(overlaps)
            avg_iou == RDiv(total_iou, <<overlap_count, 1>>)
        IN  IF overlap_count > 0
            THEN RMin(One, RAdd(RAdd(<<1, 2>>, Rat(overlap_count, 10)),
                                RMul(avg_iou, <<3, 10>>)))
            ELSE <<3, 10>>]

-----------------------------------------------------------------------------
(* SpecRedundancy: both scoring functions on the flattened boxes of one    *)
(* image.                                                                  *)

InitRedundancy ==
    /\ pc = "redundancy"
    /\ all_boxes \in BoxLists
    /\ all_labels \in [1..Len(all_boxes) -> Labels]
    /\ scale = GridScale
    /\ box1 = <<0, 0, 0, 0>>
    /\ box2 = <<0, 0, 0, 0>>
    /\ calls = {}
    /\ iou_ab = NotCalled
    /\ iou_ba = NotCalled
    /\ n_annotators = 0
    /\ iou_threshold \in IoUThresholds
    /\ min_consensus = Zero
    /\ i = 0
    /\ visited = <<>>
    /\ clusters = <<>>
    /\ cluster_results = <<>>
    /\ final_boxes = <<>>
    /\ final_scores = <<>>
    /\ final_labels = <<>>
    /\ IdleMad
    /\ IdleRefine
    /\ IdleRedundancy
    /\ IdleBatch
    /\ IdleWbf
    /\ IdleFrames

CallConfidenceFromRedundancy ==
    /\ pc = "redundancy"
    /\ "calculate_confidence_from_redundancy" \notin calls
    /\ confidence_scores' =
          CalculateConfidenceFromRedundancy(all_boxes, all_labels, iou_threshold)
    /\ calls' = calls \cup {"calculate_confidence_from_redundancy"}
    /\ UNCHANGED <<pc, box1, box2, iou_ab, iou_ba, listVars, batchVars, clusterVars,
                   madVars, refineVars, wbfVars, assigned_scores, frames>>

CallAssignConfidenceScores ==
    /\ pc = "redundancy"
    /\ "assign_confidence_scores" \notin calls
    /\ assigned_scores' =
          AssignConfidenceScores(all_boxes, all_labels, iou_threshold)
    /\ calls' = calls \cup {"assign_confidence_scores"}
    /\ UNCHANGED <<pc, box1, box2, iou_ab, iou_ba, listVars, batchVars, clusterVars,
                   madVars, refineVars, wbfVars, confidence_scores, frames>>

NextRedundancy == CallConfidenceFromRedundancy \/ CallAssignConfidenceScores

SpecRedundancy == InitRedundancy /\ [][NextRedundancy]_vars

\* No other box of the same label has IoU greater than 0.5 with box k.
Isolated(k) ==
    \A j \in 1..Len(all_boxes) :
        (j # k /\ all_labels[j] = all_labels[k])
            => RLe(IoU(all_boxes[k], all_boxes[j]), <<1, 2>>)

\* C9: called with the threshold 0.5, both functions give the score 0.3
\* exactly to a box that no other box of its label overlaps with IoU > 0.5,
\* whatever other boxes are present.
C9_IsolatedBoxScore ==
    iou_threshold = <<1, 2>> =>
        /\ "calculate_confidence_from_redundancy" \in calls =>
              \A k \in 1..Len(all_boxes) :
                  Isolated(k) => confidence_scores[k] = <<3, 10>>
        /\ "assign_confidence_scores" \in calls =>
              \A k \in 1..Len(all_boxes) :
                  Isolated(k) => assigned_scores[k] = <<3, 10>>

\* An isolated box beside two boxes that support each other; the isolated
\* box has the label of the others and IoU exactly 0.5 with one of them.
C9_Witness ==
    /\ iou_threshold = <<1, 2>>
    /\ calls = {"calculate_confidence_from_redundancy",
                "assign_confidence_scores"}
    /\ Len(all_boxes) = 3
    /\ \E k, j \in 1..3 :
          /\ k # j
          /\ all_labels[k] = all_labels[j]
          /\ IoU(all_boxes[k], all_boxes[j]) = <<1, 2>>
          /\ Isolated(k)
          /\ ~Isolated(j)
          /\ confidence_scores[k] = <<3, 10>>
          /\ assigned_scores[k] = <<3, 10>>
          /\ RLt(<<3, 10>>, confidence_scores[j])

\* A score is 0.3, or above 0.8 and at most 1.0.
LowOrHigh(score) ==
    \/ score = <<3, 10>>
    \/ RLt(<<4, 5>>, score) /\ RLe(score, One)

-----------------------------------------------------------------------------
(* SpecWbf: process_with_wbf (approach1) and process_annotations_with_wbf  *)
(* (kiro_wbf) up to their call of weighted_boxes_fusion, which is a        *)
(* library routine.  all_boxes and all_labels of the model are flat_boxes  *)
(* and flat_labels of the source; the source's all_boxes, all_labels and   *)
(* all_scores, one list per annotation set, are wbf_boxes, wbf_labels and  *)
(* wbf_scores.                                                             *)

\* Two boxes with IoU 2/3: boxes of one label support each other.
WbfPool == { <<0, 0, 2, 1>>, <<0, 0, 3, 1>> }

\* The number of boxes of each of n files, at most MaxBoxes in all.
SetSizes(n) == {sz \in [1..n -> 0..MaxBoxes] : SumInt(sz) <= MaxBoxes}

\* The number of boxes in the sets before set p.
Offset(sz, p) == SumInt([q \in 1..(p - 1) |-> sz[q]])

\* The flat list cut into sets of the given sizes.
Split(flat, sz) ==
    [p \in 1..Len(sz) |->
        [k \in 1..sz[p] |-> flat[Offset(sz, p) + k]]]

\* [x for xs in lists for x in xs]
RECURSIVE Flatten(_)
Flatten(lists) ==
    IF lists = <<>> THEN <<>> ELSE Head(lists) \o Flatten(Tail(lists))

\* The sets kept by `if boxes:`, in the order of the files.
RECURSIVE NonEmptySets(_, _)
NonEmptySets(sets, boxes) ==
    IF sets = <<>> THEN <<>>
    ELSE IF Head(boxes) # <<>>
         THEN <<Head(sets)>> \o NonEmptySets(Tail(sets), Tail(boxes))
         ELSE NonEmptySets(Tail(sets), Tail(boxes))

\* Mutant: the offset is not advanced.
NextScoreIdx_Stuck(offset, n) == offset

\* idx += n
NextScoreIdx(offset, n) == offset + n

\* scores[offset:offset + n], a Python slice: it stops at the end of the
\* list.
Slice(scores, offset, n) ==
    [k \in 1..Max2(0, Min2(Len(scores), offset + n) - offset) |->
        scores[offset + k]]

InitWbf ==
    /\ pc \in {"process_with_wbf", "process_annotations_with_wbf"}
    /\ \E n \in 0..MaxAnnotators : \E sz \in SetSizes(n) :
          \E flat \in [1..SumInt(sz) -> WbfPool] :
             \E labs \in [1..SumInt(sz) -> Labels] :
                /\ ann_boxes = Split(flat, sz)
                /\ ann_labels = Split(labs, sz)
    /\ wbf_boxes = <<>>
    /\ wbf_labels = <<>>
    /\ wbf_scores = <<>>
    /\ set_idx = 0
    /\ score_idx = 0
    /\ IdleIoU
    /\ IdleList
    /\ IdleCluster
    /\ IdleMad
    /\ IdleRefine
    /\ IdleRedundancy
    /\ IdleBatch
    /\ IdleFrames

\* process_with_wbf from the loop over the files to the scores of the flat
\* list, or to `return [], [], []`.
PWW_Scores ==
    /\ pc = "process_with_wbf"
    /\ wbf_boxes' = NonEmptySets(ann_boxes, ann_boxes)
    /\ wbf_labels' = NonEmptySets(ann_labels, ann_boxes)
    /\ IF wbf_boxes' = <<>>
       THEN /\ pc' = "pww_returned_empty"
            /\ UNCHANGED <<all_boxes, all_labels, confidence_scores>>
       ELSE /\ all_boxes' = Flatten(wbf_boxes')
            /\ all_labels' = Flatten(wbf_labels')
            /\ confidence_scores' =
                  CalculateConfidenceFromRedundancy(all_boxes', all_labels',
                                                    <<1, 2>>)
            /\ pc' = "pww_redistribute"
    /\ set_idx' = 1
    /\ score_idx' = 0
    /\ UNCHANGED <<iouVars, scale, clusterVars, madVars, refineVars,
                   batchVars, assigned_scores, ann_boxes, ann_labels,
                   wbf_scores, frames>>

\* One iteration of `for boxes in all_boxes`.
PWW_Redistribute ==
    /\ pc = "pww_redistribute"
    /\ set_idx <= Len(wbf_boxes)
    /\ LET n == Len(wbf_boxes[set_idx])
       IN  /\ wbf_scores' =
                 Append(wbf_scores, Slice(confidence_scores, score_idx, n))
           /\ score_idx' = NextScoreIdx(score_idx, n)
    /\ set_idx' = set_idx + 1
    /\ UNCHANGED <<pc, iouVars, listVars, clusterVars, madVars, refineVars,
                   redundancyVars, batchVars, ann_boxes, ann_labels,
                   wbf_boxes, wbf_labels, frames>>

\* The call weighted_boxes_fusion(all_boxes, all_scores, all_labels, ...).
PWW_Fusion ==
    /\ pc = "pww_redistribute"
    /\ set_idx > Len(wbf_boxes)
    /\ pc' = "pww_fusion"
    /\ UNCHANGED <<iouVars, listVars, clusterVars, madVars, refineVars,
                   redundancyVars, batchVars, wbfVars, frames>>

\* process_annotations_with_wbf: every box is read with the score 1.0.
PAW_Scores ==
    /\ pc = "process_annotations_with_wbf"
    /\ wbf_boxes' = NonEmptySets(ann_boxes, ann_boxes)
    /\ wbf_labels' = NonEmptySets(ann_labels, ann_boxes)
    /\ wbf_scores' =
          [p \in 1..Len(wbf_boxes') |->
              [k \in 1..Len(wbf_boxes'[p]) |-> One]]
    /\ IF wbf_boxes' = <<>>
       THEN /\ pc' = "paw_returned_empty"
            /\ UNCHANGED <<all_boxes, all_labels, assigned_scores>>
       ELSE /\ all_boxes' = Flatten(wbf_boxes')
            /\ all_labels' = Flatten(wbf_labels')
            /\ assigned_scores' =
                  AssignConfidenceScores(all_boxes', all_labels', <<1, 2>>)
            /\ pc' = "paw_redistribute"
    /\ set_idx' = 1
    /\ score_idx' = 0
    /\ UNCHANGED <<iouVars, scale, clusterVars, madVars, refineVars,
                   batchVars, confidence_scores, ann_boxes, ann_labels, frames>>

\* One iteration of `for i in range(len(all_boxes))`.
PAW_Redistribute ==
    /\ pc = "paw_redistribute"
    /\ set_idx <= Len(wbf_boxes)
    /\ LET n_boxes == Len(wbf_boxes[set_idx])
       IN  /\ wbf_scores' =
                 [wbf_scores EXCEPT
                     ![set_idx] = Slice(assigned_scores, score_idx, n_boxes)]
           /\ score_idx' = NextScoreIdx(score_idx, n_boxes)
    /\ set_idx' = set_idx + 1
    /\ UNCHANGED <<pc, iouVars, listVars, clusterVars, madVars, refineVars,
                   redundancyVars, batchVars, ann_boxes, ann_labels,
                   wbf_boxes, wbf_labels, frames>>

PAW_Fusion ==
    /\ pc = "paw_redistribute"
    /\ set_idx > Len(wbf_boxes)
    /\ pc' = "paw_fusion"
    /\ UNCHANGED <<iouVars, listVars, clusterVars, madVars, refineVars,
                   redundancyVars, batchVars, wbfVars, frames>>

NextWbf ==
    \/ PWW_Scores
    \/ PWW_Redistribute
    \/ PWW_Fusion
    \/ PAW_Scores
    \/ PAW_Redistribute
    \/ PAW_Fusion

SpecWbf == InitWbf /\ [][NextWbf]_vars

\* The files that have boxes, in order.
NonEmptyFiles == {f \in 1..Len(ann_boxes) : ann_boxes[f] # <<>>}

\* Box k of file f has a box of its label, in any file, with IoU above 0.5.
Supported(f, k) ==
    \E g \in NonEmptyFiles : \E j \in 1..Len(ann_boxes[g]) :
        /\ <<g, j>> # <<f, k>>
        /\ ann_labels[g][j] = ann_labels[f][k]
        /\ RLt(<<1, 2>>, IoU(ann_boxes[g][j], ann_boxes[f][k]))

\* The position of box k of the p-th non-empty set in the flat list.
FlatPosition(p, k) ==
    SumInt([q \in 1..(p - 1) |-> Len(wbf_boxes[q])]) + k

\* The three lists given to weighted_boxes_fusion are the non-empty sets in
\* the order of the files, and the k-th score of a set is the score of the
\* flat list at the position of the set's k-th box.
AlignedWith(scores) ==
    /\ Len(wbf_boxes) = Cardinality(NonEmptyFiles)
    /\ Len(wbf_scores) = Len(wbf_boxes)
    /\ Len(wbf_labels) = Len(wbf_boxes)
    /\ \A p \in 1..Len(wbf_boxes) :
          LET f == NthOf(NonEmptyFiles, p)
          IN  /\ wbf_boxes[p] = ann_boxes[f]
              /\ wbf_labels[p] = ann_labels[f]
              /\ Len(wbf_scores[p]) = Len(wbf_boxes[p])
              /\ Len(wbf_labels[p]) = Len(wbf_boxes[p])
              /\ \A k \in 1..Len(wbf_boxes[p]) :
                    /\ all_boxes[FlatPosition(p, k)] = wbf_boxes[p][k]
                    /\ all_labels[FlatPosition(p, k)] = wbf_labels[p][k]
                    /\ wbf_scores[p][k] = scores[FlatPosition(p, k)]
                    /\ wbf_scores[p][k] = <<3, 10>> <=> ~Supported(f, k)

\* C23: at the call of the fusion routine every non-empty annotation set
\* has as many scores as boxes, its k-th score is the redundancy score of
\* the flat position of its k-th box, and the sets without boxes are absent
\* from boxes, scores and labels alike.  The same holds in
\* process_annotations_with_wbf.
C23_ScoresRedistributedAligned ==
    /\ pc = "pww_fusion" => AlignedWith(confidence_scores)
    /\ pc = "paw_fusion" => AlignedWith(assigned_scores)

\* Three files, the second without boxes: the first has an unsupported box
\* and a supported one, the third the box that supports it.
C23_Witness ==
    /\ pc = "pww_fusion"
    /\ Len(ann_boxes) = 3
    /\ Len(ann_boxes[1]) = 2
    /\ ann_boxes[2] = <<>>
    /\ Len(ann_boxes[3]) = 1
    /\ Len(wbf_boxes) = 2
    /\ wbf_scores[1][1] = <<3, 10>>
    /\ wbf_scores[1][2] # <<3, 10>>
    /\ wbf_scores[2][1] = wbf_scores[1][2]

-----------------------------------------------------------------------------
(* SpecInterleave: two calls, one per image, of cluster_boxes_by_similarity *)
(* or iterative_refinement, whose loop iterations run in any order.  A     *)
(* frame holds the arguments and the locals of one call: both functions    *)
(* create their marker array and their result lists inside the call and    *)
(* use no name of module scope.                                            *)

CallIds == {1, 2}

\* Two boxes with IoU 1/3, below the default threshold.
InterleavePool == { <<0, 0, 2, 1>>, <<1, 0, 3, 1>> }

InterleaveLists == UNION {[1..n -> InterleavePool] : n \in 1..MaxBoxes}

\* The frame of a call at its first loop iteration: `visited = [False] * n`,
\* `clusters = []`, or `processed = [False] * n` and the empty result lists.
NewFrame(fn, boxes) ==
    [fn             |-> fn,
     boxes          |-> boxes,
     labels         |-> [k \in 1..Len(boxes) |-> 0],
     iou_threshold  |-> <<1, 2>>,
     max_iterations |-> 3,
     i              |-> 1,
     visited        |-> IF fn = "cluster_boxes_by_similarity"
                        THEN [k \in 1..Len(boxes) |-> FALSE] ELSE <<>>,
     clusters       |-> <<>>,
     processed      |-> IF fn = "iterative_refinement"
                        THEN [k \in 1..Len(boxes) |-> FALSE] ELSE <<>>,
     refined        |-> <<>>,
     returned       |-> FALSE]

\* Mutant: one marker array for all calls; a call sees the marks of call 1.
Locals_SharedMarker(fs, c) ==
    [fs[c] EXCEPT
        !.visited = [k \in DOMAIN fs[c].visited |->
                        fs[c].visited[k]
                            \/ (k \in DOMAIN fs[1].visited
                                   /\ fs[1].visited[k])],
        !.processed = [k \in DOMAIN fs[c].processed |->
                          fs[c].processed[k]
                              \/ (k \in DOMAIN fs[1].processed
                                     /\ fs[1].processed[k])]]

\* The names a call reads and writes are its own arguments and locals.
Locals(fs, c) == fs[c]

\* One iteration of `for i in range(n)` of cluster_boxes_by_similarity on
\* the frame f.
ClusterIteration(f) ==
    IF f.visited[f.i]
    THEN [f EXCEPT !.i = @ + 1]
    ELSE LET cluster == GrowCluster(<<f.i>>, f.i + 1, f.i, f.visited,
                                    f.boxes, f.labels, f.iou_threshold)
         IN  [f EXCEPT !.visited = MarkVisited(@, cluster),
                       !.clusters = Append(@, cluster),
                       !.i = @ + 1]

\* One iteration of `for i in range(n)` of iterative_refinement on the
\* frame f.
RefineIteration(f) ==
    LET similar_indices ==
            FindSimilarBoxes(f.boxes[f.i], f.labels[f.i], f.boxes, f.labels,
                             f.iou_threshold, 1)
    IN  IF f.processed[f.i] \/ similar_indices = <<>>
        THEN [f EXCEPT !.i = @ + 1]
        ELSE [f EXCEPT
                 !.processed = [k \in DOMAIN @ |->
                                   @[k] \/ k \in Range(similar_indices)],
                 !.refined = Append(@, RefineGroup(similar_indices, f.i,
                                                   f.boxes, f.labels,
                                                   f.max_iterations)),
                 !.i = @ + 1]

Iteration(f) ==
    IF f.fn = "cluster_boxes_by_similarity"
    THEN ClusterIteration(f)
    ELSE RefineIteration(f)

InitInterleave ==
    /\ pc = "interleaved"
    /\ \E fn1, fn2 \in {"cluster_boxes_by_similarity", "iterative_refinement"} :
          \E boxes1, boxes2 \in InterleaveLists :
             frames = <<NewFrame(fn1, boxes1), NewFrame(fn2, boxes2)>>
    /\ IdleIoU
    /\ IdleList
    /\ IdleCluster
    /\ IdleMad
    /\ IdleRefine
    /\ IdleRedundancy
    /\ IdleBatch
    /\ IdleWbf

\* Call c runs one iteration of its loop.
CallIteration(c) ==
    /\ ~frames[c].returned
    /\ frames[c].i <= Len(frames[c].boxes)
    /\ frames' = [frames EXCEPT ![c] = Iteration(Locals(frames, c))]
    /\ UNCHANGED <<pc, iouVars, listVars, clusterVars, madVars, refineVars,
                   redundancyVars, batchVars, wbfVars>>

\* Call c returns its clusters or its result lists.
CallReturn(c) ==
    /\ ~frames[c].returned
    /\ frames[c].i > Len(frames[c].boxes)
    /\ frames' = [frames EXCEPT ![c].returned = TRUE]
    /\ UNCHANGED <<pc, iouVars, listVars, clusterVars, madVars, refineVars,
                   redundancyVars, batchVars, wbfVars>>

NextInterleave == \E c \in CallIds : CallIteration(c) \/ CallReturn(c)

SpecInterleave == InitInterleave /\ [][NextInterleave]_vars

\* The frame of a call that runs alone, when its loop is at index upto.
RECURSIVE RunAlone(_, _)
RunAlone(f, upto) ==
    IF f.i >= upto THEN f ELSE RunAlone(Iteration(f), upto)

\* C24: the visited marker of cluster_boxes_by_similarity and the processed
\* marker of iterative_refinement belong to one call.  However the
\* iterations of two calls are interleaved, the marker and the results of
\* each call are, at every iteration, those of the call running alone on
\* its arguments; so each call returns what it returns alone, and no call
\* sees or changes what the other has marked.
C24_CallsDoNotInterfere ==
    \A c \in DOMAIN frames :
        LET f == frames[c]
            alone == RunAlone(NewFrame(f.fn, f.boxes), f.i)
        IN  /\ f.visited = alone.visited
            /\ f.processed = alone.processed
            /\ f.clusters = alone.clusters
            /\ f.refined = alone.refined

\* Both calls have returned.  Call 1 marked its second box as visited and
\* has one cluster; call 2 has the same number of boxes, did not see that
\* mark, and opened a second cluster at its second box.
C24_Witness ==
    /\ pc = "interleaved"
    /\ frames[1].returned
    /\ frames[2].returned
    /\ frames[1].fn = "cluster_boxes_by_similarity"
    /\ frames[2].fn = "cluster_boxes_by_similarity"
    /\ frames[1].clusters = << <<1, 2>> >>
    /\ frames[2].clusters = << <<1>>, <<2>> >>

-----------------------------------------------------------------------------
(* SpecBatch: the batch loops.  process_all_images (batch_processor) runs  *)
(* up to three fusion approaches per image, run_wbf_and_save (gera_score)  *)
(* one.  A fusion call is outside the model: it returns or raises, and so  *)
(* does the saving that follows it in the same try block.  No call reads   *)
(* anything written for another image.                                     *)

Approaches == {"wbf", "clustering", "iterative"}

\* How the try block of one approach for one image ends.
Outcomes == {"returns", "fusion_raises", "save_raises"}

NotCalledYet == [a \in Approaches |-> "not_called"]

\* Mutant: the exception is not caught and ends the loop.
ExceptClause_Propagates(next_pc) == "aborted"

\* `except Exception as e: print(...)`: control goes on after the try
\* statement.
ExceptClause(next_pc) == next_pc

InitBatch ==
    /\ \/ /\ pc = "process_all_images"
          /\ image_annotations \in
                 UNION {[1..n -> {1, 2}] : n \in 0..MaxImages}
          /\ data = <<>>
          /\ approach \in Approaches \cup {"all"}
          /\ outcomes = [k \in 1..Len(image_annotations) |-> NotCalledYet]
       \/ /\ pc = "run_wbf_and_save"
          /\ data \in UNION {[1..n -> {0, 1}] : n \in 0..MaxImages}
          /\ image_annotations = <<>>
          /\ approach = "wbf"
          /\ outcomes = [k \in 1..Len(data) |-> NotCalledYet]
    /\ idx = 1
    /\ results = [wbf |-> {}, clustering |-> {}, iterative |-> {}]
    /\ saved = [wbf |-> {}, clustering |-> {}, iterative |-> {}]
    /\ IdleIoU
    /\ IdleList
    /\ IdleCluster
    /\ IdleMad
    /\ IdleRefine
    /\ IdleRedundancy
    /\ IdleWbf
    /\ IdleFrames

\* The top of the loop body: `if len(ann_files) < 2: continue`.
PAI_Image ==
    /\ pc = "process_all_images"
    /\ idx <= Len(image_annotations)
    /\ IF image_annotations[idx] < 2
       THEN idx' = idx + 1 /\ pc' = pc
       ELSE idx' = idx /\ pc' = "wbf"
    /\ UNCHANGED <<iouVars, listVars, clusterVars, madVars, refineVars,
                   redundancyVars, wbfVars, image_annotations, data, approach,
                   outcomes, results, saved, frames>>

\* The block of approach a: the call, the entry in results, the saving,
\* all inside one try statement.
TryApproach(a, next_pc) ==
    IF approach \in {a, "all"}
    THEN \E o \in Outcomes :
            /\ outcomes' = [outcomes EXCEPT ![idx][a] = o]
            /\ results' = IF o = "fusion_raises"
                          THEN results
                          ELSE [results EXCEPT ![a] = @ \cup {idx}]
            /\ saved' = IF o = "returns"
                        THEN [saved EXCEPT ![a] = @ \cup {idx}]
                        ELSE saved
            /\ pc' = IF o = "returns" THEN next_pc ELSE ExceptClause(next_pc)
    ELSE /\ pc' = next_pc
         /\ UNCHANGED <<outcomes, results, saved>>

PAI_Wbf ==
    /\ pc = "wbf"
    /\ TryApproach("wbf", "clustering")
    /\ UNCHANGED <<iouVars, listVars, clusterVars, madVars, refineVars,
                   redundancyVars, wbfVars, image_annotations, data, approach, idx, frames>>

PAI_Clustering ==
    /\ pc = "clustering"
    /\ TryApproach("clustering", "iterative")
    /\ UNCHANGED <<iouVars, listVars, clusterVars, madVars, refineVars,
                   redundancyVars, wbfVars, image_annotations, data, approach, idx, frames>>

\* The last block of the loop body; the loop goes to the next image.
PAI_Iterative ==
    /\ pc = "iterative"
    /\ TryApproach("iterative", "process_all_images")
    /\ idx' = idx + 1
    /\ UNCHANGED <<iouVars, listVars, clusterVars, madVars, refineVars,
                   redundancyVars, wbfVars, image_annotations, data, approach, frames>>

PAI_Return ==
    /\ pc = "process_all_images"
    /\ idx > Len(image_annotations)
    /\ pc' = "batch_done"
    /\ UNCHANGED <<iouVars, listVars, clusterVars, madVars, refineVars,
                   redundancyVars, wbfVars, batchVars, frames>>

\* One iteration of the loop of run_wbf_and_save: an image without boxes
\* gets an empty file; otherwise weighted_boxes_fusion is called in a try
\* statement whose except clause ends in `continue`, and the file is
\* written after it.
RWS_Image ==
    /\ pc = "run_wbf_and_save"
    /\ idx <= Len(data)
    /\ IF data[idx] = 0
       THEN /\ saved' = [saved EXCEPT !.wbf = @ \cup {idx}]
            /\ pc' = pc
            /\ UNCHANGED outcomes
       ELSE \E o \in {"returns", "fusion_raises"} :
               /\ outcomes' = [outcomes EXCEPT ![idx].wbf = o]
               /\ saved' = IF o = "returns"
                           THEN [saved EXCEPT !.wbf = @ \cup {idx}]
                           ELSE saved
               /\ pc' = IF o = "returns" THEN pc ELSE ExceptClause(pc)
    /\ idx' = idx + 1
    /\ UNCHANGED <<iouVars, listVars, clusterVars, madVars, refineVars,
                   redundancyVars, wbfVars, image_annotations, data, approach,
                   results, frames>>

RWS_Return ==
    /\ pc = "run_wbf_and_save"
    /\ idx > Len(data)
    /\ pc' = "wbf_done"
    /\ UNCHANGED <<iouVars, listVars, clusterVars, madVars, refineVars,
                   redundancyVars, wbfVars, batchVars, frames>>

NextBatch ==
    \/ PAI_Image
    \/ PAI_Wbf
    \/ PAI_Clustering
    \/ PAI_Iterative
    \/ PAI_Return
    \/ RWS_Image
    \/ RWS_Return

SpecBatch == InitBatch /\ [][NextBatch]_vars

\* Approach a is run for image k of process_all_images.
Selected(k, a) == approach \in {a, "all"} /\ image_annotations[k] >= 2

\* C18: a fusion call that raises for one image under one approach is
\* caught; that image gets no entry under that approach; and the loop goes
\* on: at the return every selected approach has been run for every image
\* with two or more files, and an image has its entry and its file under an
\* approach exactly when its own call under that approach returned (the
\* entry alone when only the saving raised).  run_wbf_and_save likewise:
\* every image with boxes had its call, and an image has its file exactly
\* when it has no boxes or its own call returned.
C18_FailureIsolated ==
    /\ pc # "aborted"
    /\ pc = "batch_done" =>
          \A k \in 1..Len(image_annotations) : \A a \in Approaches :
              /\ Selected(k, a) <=> outcomes[k][a] # "not_called"
              /\ k \in results[a] <=>
                     outcomes[k][a] \in {"returns", "save_raises"}
              /\ k \in saved[a] <=> outcomes[k][a] = "returns"
    /\ pc = "wbf_done" =>
          \A k \in 1..Len(data) :
              /\ data[k] > 0 <=> outcomes[k].wbf # "not_called"
              /\ k \in saved.wbf <=>
                     (data[k] = 0 \/ outcomes[k].wbf = "returns")

\* Two images, all approaches: the WBF call of the first image raised, its
\* clustering call and every call of the second image returned.
C18_Witness ==
    /\ pc = "batch_done"
    /\ approach = "all"
    /\ Len(image_annotations) = 2
    /\ outcomes[1].wbf = "fusion_raises"
    /\ outcomes[1].clustering = "returns"
    /\ \A a \in Approaches : outcomes[2][a] = "returns"
    /\ results.wbf = {2}
    /\ results.clustering = {1, 2}
    /\ saved.wbf = {2}

=============================================================================
